---- MODULE Spec2Model ----
(***************************************************************************)
(* A model of the scanning core of mod-hub: the byte-signature matchers    *)
(* of src/pattern.rs and the VTable scanner of src/vtable.rs.              *)
(*                                                                         *)
(* Offsets and sequence indices are written 0-based, as in the source; a   *)
(* sequence s of the model holds the source's s[i] at s[i + 1].            *)
(***************************************************************************)
EXTENDS Integers, Sequences, FiniteSets, TLC

VARIABLES
    pattern,        \* Pattern.bytes of the pattern under search
    data,           \* the byte buffer handed to a matcher
    found,          \* the last Pattern/PatternMatcher call and what it returned
    ctor,           \* the last Pattern constructor call and what it returned
    buffer,         \* the byte buffer handed to VTableScanner::scan_vtables
    base_address,   \* the address the buffer was read from (a usize)
    config,         \* VTableScanner.config
    vscan,          \* the last VTableScanner call and what it returned
    scanner,        \* the last MemoryScanner/RegionFilter call and what it returned
    enumeration,    \* the locals of a running MemoryScanner::enumerate_regions
    memory,         \* the target process's memory: its regions, in address order
    engine,         \* the last AnalysisEngine call and what it returned
    GLOBAL_ANY,     \* hooks::GLOBAL_ANY: None, or Some(the global HookManager)
    RUNNING,        \* the static AtomicBool RUNNING of lib.rs
    SHUTDOWN,       \* the static AtomicBool SHUTDOWN of lib.rs
    watchers,       \* the runtime watcher threads spawned so far, in spawn order
    caller          \* the thread that loads the library: where it is, what it last called

vars == <<pattern, data, found, ctor, buffer, base_address, config, vscan,
          scanner, enumeration, memory, engine,
          GLOBAL_ANY, RUNNING, SHUTDOWN, watchers, caller>>

patternVars == <<pattern, data, found>>
vtableVars  == <<buffer, base_address, config, vscan>>
memoryVars  == <<scanner, enumeration, memory>>
hookVars    == <<GLOBAL_ANY, RUNNING, SHUTDOWN, watchers, caller>>

----------------------------------------------------------------------------
(* Bounds of the model.                                                    *)

MaxPatLen  == 4     \* longest pattern drawn
MaxDataLen == 5     \* longest buffer handed to a matcher

(* The byte values patterns and matcher buffers are drawn from. *)
ScanBytes == {72, 139}

----------------------------------------------------------------------------
(* Option<u8>: None is the empty tuple, Some(b) the tuple <<b>>.           *)

None    == <<>>
Some(b) == <<b>>

RECURSIVE SeqsUpTo(_, _)
SeqsUpTo(S, n) ==
    IF n = 0 THEN {<<>>}
    ELSE LET shorter == SeqsUpTo(S, n - 1)
         IN  shorter \cup {Append(s, x) : s \in {t \in shorter : Len(t) = n - 1}, x \in S}

Max(a, b) == IF a >= b THEN a ELSE b

----------------------------------------------------------------------------
(* usize: a 64-bit word, kept as three limbs <<low 24 bits, middle 24 bits, *)
(* high 16 bits>> so that sums wrap where the machine's do.                 *)

WordBytes == 8

Limb    == 256 * 256 * 256
TopLimb == 256 * 256

(* The word holding the natural number n (n below 2^31). *)
ToWord(n) == <<n % Limb, n \div Limb, 0>>

WordZero == ToWord(0)
WordMax  == <<Limb - 1, Limb - 1, TopLimb - 1>>

(* a + b modulo 2^64, and whether the exact sum did not fit. *)
WordAdd(a, b) ==
    LET t1 == a[1] + b[1]
        t2 == a[2] + b[2] + (t1 \div Limb)
        t3 == a[3] + b[3] + (t2 \div Limb)
    IN  [sum |-> <<t1 % Limb, t2 % Limb, t3 % TopLimb>>, overflow |-> t3 >= TopLimb]

WordLess(a, b) ==
    IF a[3] # b[3] THEN a[3] < b[3]
    ELSE IF a[2] # b[2] THEN a[2] < b[2]
    ELSE a[1] < b[1]

WordLeq(a, b) == ~WordLess(b, a)

(* a - b for a >= b. *)
WordSub(a, b) ==
    LET t1 == a[1] - b[1]
        t2 == a[2] - b[2] - (IF t1 < 0 THEN 1 ELSE 0)
        t3 == a[3] - b[3] - (IF t2 < 0 THEN 1 ELSE 0)
    IN  <<t1 % Limb, t2 % Limb, t3 % TopLimb>>

(* A word below 2^24 as a natural number; used for lengths and for indices *)
(* the code has checked against a buffer length.                           *)
WordIsSmall(a) == a[2] = 0 /\ a[3] = 0
WordToNat(a)   == a[1]

(* usize::from_le_bytes: the word whose 8 little-endian bytes are given. *)
from_le_bytes(bytes) ==
    <<bytes[1] + 256 * bytes[2] + 65536 * bytes[3],
      bytes[4] + 256 * bytes[5] + 65536 * bytes[6],
      bytes[7] + 256 * bytes[8]>>

(* usize::to_le_bytes: the 8 little-endian bytes of a word. *)
to_le_bytes(word) ==
    <<word[1] % 256, (word[1] \div 256) % 256, word[1] \div 65536,
      word[2] % 256, (word[2] \div 256) % 256, word[2] \div 65536,
      word[3] % 256, word[3] \div 256>>

----------------------------------------------------------------------------
(* Pattern (src/pattern.rs).                                               *)

PatternLen(p) == Len(p)

(* Pattern::matches_at for any usize offset.  overflow_checks is the       *)
(* build's setting: with it `offset + self.len()` panics on overflow,      *)
(* without it the sum wraps.  Indexing a slice out of range panics.        *)
RECURSIVE MatchesFrom(_, _, _, _)
MatchesFrom(p, d, offset, i) ==
    IF i >= Len(p) THEN "true"
    ELSE IF p[i + 1] = None THEN MatchesFrom(p, d, offset, i + 1)
    ELSE LET idx == WordAdd(offset, ToWord(i)).sum
         IN  IF ~(WordIsSmall(idx) /\ WordToNat(idx) < Len(d)) THEN "panic"
             ELSE IF d[WordToNat(idx) + 1] # p[i + 1][1] THEN "false"
             ELSE MatchesFrom(p, d, offset, i + 1)

matches_at(p, d, offset, overflow_checks) ==
    LET end == WordAdd(offset, ToWord(PatternLen(p)))
    IN  IF end.overflow /\ overflow_checks THEN "panic"
        ELSE IF WordLess(ToWord(Len(d)), end.sum) THEN "false"
        ELSE MatchesFrom(p, d, offset, 0)

(* matches_at as the matchers call it, with an offset inside the buffer. *)
MatchesAt(p, d, i) == matches_at(p, d, ToWord(i), TRUE) = "true"

PatternMatch(offset, size) == [offset |-> offset, size |-> size]

----------------------------------------------------------------------------
(* NaiveMatcher.                                                           *)

RECURSIVE NaiveLoop(_, _, _, _)
NaiveLoop(p, d, i, matches) ==
    IF i > Len(d) - PatternLen(p) THEN matches
    ELSE IF MatchesAt(p, d, i)
         THEN NaiveLoop(p, d, i + 1, Append(matches, PatternMatch(i, PatternLen(p))))
         ELSE NaiveLoop(p, d, i + 1, matches)

NaiveFindAll(p, d) ==
    IF PatternLen(p) = 0 \/ Len(d) < PatternLen(p) THEN <<>>
    ELSE NaiveLoop(p, d, 0, <<>>)

----------------------------------------------------------------------------
(* BoyerMooreMatcher.                                                      *)

(* The table maps each known byte to the last index it was inserted at. *)
RECURSIVE BadCharFrom(_, _, _)
BadCharFrom(p, i, table) ==
    IF i >= Len(p) THEN table
    ELSE IF p[i + 1] = None THEN BadCharFrom(p, i + 1, table)
    ELSE LET byte == p[i + 1][1]
         IN  BadCharFrom(p, i + 1,
                 [b \in DOMAIN table \cup {byte} |-> IF b = byte THEN i ELSE table[b]])

build_bad_char_table(p) == BadCharFrom(p, 0, <<>>)

(* The right-to-left loop of one window: the j it ends with. *)
RECURSIVE BMInner(_, _, _, _)
BMInner(p, d, i, j) ==
    IF ~(j > 0 /\ MatchesAt(p, d, i)) THEN j
    ELSE IF p[j] # None /\ d[i + j] # p[j][1] THEN j
    ELSE BMInner(p, d, i, j - 1)

(* A variant of the shift that aligns the table's index one place too far  *)
(* to the right: j - pos in place of j - pos - 1.                          *)
BMShift_OffByOne(d, table, i, j) ==
    LET bad_char == d[i + j]
    IN  IF bad_char \in DOMAIN table
        THEN Max(1, j - table[bad_char])
        ELSE j

(* How far the window moves after a window that did not match (j > 0). *)
BMShift(d, table, i, j) ==
    LET bad_char == d[i + j]
    IN  IF bad_char \in DOMAIN table
        THEN Max(1, j - table[bad_char] - 1)
        ELSE j

RECURSIVE BMLoop(_, _, _, _, _)
BMLoop(p, d, table, i, matches) ==
    IF i > Len(d) - PatternLen(p) THEN matches
    ELSE LET j == BMInner(p, d, i, PatternLen(p))
         IN  IF j = 0
             THEN BMLoop(p, d, table, i + 1,
                         Append(matches, PatternMatch(i, PatternLen(p))))
             ELSE BMLoop(p, d, table, i + BMShift(d, table, i, j), matches)

BoyerMooreFindAll(p, d) ==
    IF PatternLen(p) = 0 \/ Len(d) < PatternLen(p) THEN <<>>
    ELSE BMLoop(p, d, build_bad_char_table(p), 0, <<>>)

----------------------------------------------------------------------------
(* KmpMatcher.                                                             *)

pattern_chars_equal(p, i, j) ==
    IF p[i + 1] # None /\ p[j + 1] # None THEN p[i + 1][1] = p[j + 1][1] ELSE TRUE

pattern_matches_data(p, d, pattern_idx, data_idx) ==
    IF p[pattern_idx + 1] # None THEN d[data_idx + 1] = p[pattern_idx + 1][1] ELSE TRUE

(* while j > 0 && !pattern_chars_equal(pattern, i, j) { j = failure[j - 1] } *)
RECURSIVE FailureFallback(_, _, _, _)
FailureFallback(p, failure, i, j) ==
    IF j > 0 /\ ~pattern_chars_equal(p, i, j)
    THEN FailureFallback(p, failure, i, failure[j])
    ELSE j

RECURSIVE FailureFrom(_, _, _, _)
FailureFrom(p, failure, i, j) ==
    IF i >= Len(p) THEN failure
    ELSE LET j1 == FailureFallback(p, failure, i, j)
             j2 == IF pattern_chars_equal(p, i, j1) THEN j1 + 1 ELSE j1
         IN  FailureFrom(p, [failure EXCEPT ![i + 1] = j2], i + 1, j2)

build_failure_function(p) == FailureFrom(p, [k \in 1..Len(p) |-> 0], 1, 0)

(* while j > 0 && !pattern_matches_data(pattern, data, j, i) { j = failure[j - 1] } *)
RECURSIVE KmpFallback(_, _, _, _, _)
KmpFallback(p, d, failure, i, j) ==
    IF j > 0 /\ ~pattern_matches_data(p, d, j, i)
    THEN KmpFallback(p, d, failure, i, failure[j])
    ELSE j

RECURSIVE KmpLoop(_, _, _, _, _, _)
KmpLoop(p, d, failure, i, j, matches) ==
    IF i >= Len(d) THEN matches
    ELSE LET j1 == KmpFallback(p, d, failure, i, j)
             j2 == IF pattern_matches_data(p, d, j1, i) THEN j1 + 1 ELSE j1
         IN  IF j2 = PatternLen(p)
             THEN KmpLoop(p, d, failure, i + 1, failure[j2],
                          Append(matches, PatternMatch(i - PatternLen(p) + 1, PatternLen(p))))
             ELSE KmpLoop(p, d, failure, i + 1, j2, matches)

KmpFindAll(p, d) ==
    IF PatternLen(p) = 0 \/ Len(d) < PatternLen(p) THEN <<>>
    ELSE KmpLoop(p, d, build_failure_function(p), 0, 0, <<>>)

----------------------------------------------------------------------------
(* HybridMatcher and PatternScanner.                                       *)

WildcardCount(p) == Cardinality({k \in 1..Len(p) : p[k] = None})

(* wildcard_ratio < 0.3 for wildcard_ratio = count / len, in tenths. *)
select_matcher(p) ==
    IF PatternLen(p) >= 8 /\ 10 * WildcardCount(p) < 3 * PatternLen(p) THEN "BoyerMoore"
    ELSE IF PatternLen(p) >= 4 THEN "Kmp"
    ELSE "Naive"

FindAll(matcher, p, d) ==
    CASE matcher = "Naive"      -> NaiveFindAll(p, d)
      [] matcher = "BoyerMoore" -> BoyerMooreFindAll(p, d)
      [] matcher = "Kmp"        -> KmpFindAll(p, d)

HybridFindAll(p, d) == FindAll(select_matcher(p), p, d)

(* PatternScanner::new().scan_pattern: the default scanner holds the hybrid matcher. *)
scan_pattern(p, d) == HybridFindAll(p, d)

----------------------------------------------------------------------------
(* Strings are sequences of characters; a character is a one-letter string, *)
(* and NonAscii stands for a character whose UTF-8 encoding has two bytes.  *)

NonAscii == "U+00E9"

Utf8Width(c) == IF c = NonAscii THEN 2 ELSE 1

(* str::len(): the length in bytes of the UTF-8 encoding. *)
RECURSIVE StrLen(_)
StrLen(str) == IF str = <<>> THEN 0 ELSE Utf8Width(Head(str)) + StrLen(Tail(str))

IsWhitespace(c) == c \in {" ", "\t", "\n"}

(* str::split_whitespace(): the maximal runs of non-whitespace characters. *)
RECURSIVE SplitFrom(_, _, _, _)
SplitFrom(str, k, current, parts) ==
    IF k > Len(str)
    THEN IF current = <<>> THEN parts ELSE Append(parts, current)
    ELSE IF IsWhitespace(str[k])
         THEN SplitFrom(str, k + 1, <<>>,
                        IF current = <<>> THEN parts ELSE Append(parts, current))
         ELSE SplitFrom(str, k + 1, Append(current, str[k]), parts)

split_whitespace(str) == SplitFrom(str, 1, <<>>, <<>>)

LowerHex == <<"0", "1", "2", "3", "4", "5", "6", "7", "8", "9", "a", "b", "c", "d", "e", "f">>
UpperHex == <<"0", "1", "2", "3", "4", "5", "6", "7", "8", "9", "A", "B", "C", "D", "E", "F">>

(* char::to_digit(16) *)
IsHexDigit(c) == \E v \in 0..15 : LowerHex[v + 1] = c \/ UpperHex[v + 1] = c
HexValue(c)   == CHOOSE v \in 0..15 : LowerHex[v + 1] = c \/ UpperHex[v + 1] = c

RECURSIVE HexDigitsValue(_, _)
HexDigitsValue(digits, acc) ==
    IF digits = <<>> THEN acc
    ELSE HexDigitsValue(Tail(digits), 16 * acc + HexValue(Head(digits)))

(* u8::from_str_radix(src, 16): an optional '+', then one or more hex      *)
(* digits whose value fits a byte; a '-' is no digit of an unsigned type.  *)
u8_from_str_radix16(src) ==
    LET digits == IF src # <<>> /\ Head(src) = "+" THEN Tail(src) ELSE src
    IN  IF src = <<>> \/ digits = <<>> THEN [ok |-> FALSE]
        ELSE IF \E k \in 1..Len(digits) : ~IsHexDigit(digits[k]) THEN [ok |-> FALSE]
        ELSE IF HexDigitsValue(digits, 0) > 255 THEN [ok |-> FALSE]
        ELSE [ok |-> TRUE, value |-> HexDigitsValue(digits, 0)]

Ok(bytes, mask) == [ok |-> TRUE, bytes |-> bytes, mask |-> mask]
Err(error, arg) == [ok |-> FALSE, error |-> error, arg |-> arg]

(* The loop of Pattern::new over the tokens from token k on. *)
RECURSIVE NewFrom(_, _, _, _)
NewFrom(parts, k, bytes, mask) ==
    IF k > Len(parts)
    THEN IF bytes = <<>> THEN Err("EmptyPattern", <<>>) ELSE Ok(bytes, mask)
    ELSE LET part == parts[k]
         IN  IF part = <<"?">> \/ part = <<"?", "?">>
             THEN NewFrom(parts, k + 1, Append(bytes, None), Append(mask, "?"))
             ELSE IF StrLen(part) = 2
             THEN LET byte == u8_from_str_radix16(part)
                  IN  IF ~byte.ok THEN Err("InvalidHex", part)
                      ELSE NewFrom(parts, k + 1, Append(bytes, Some(byte.value)),
                                   Append(mask, "x"))
             ELSE Err("InvalidPatternFormat", part)

(* Pattern::new(pattern_str) *)
PatternNew(pattern_str) == NewFrom(split_whitespace(pattern_str), 1, <<>>, <<>>)

(* A variant of the mask loop in which only the lower-case 'x' keeps the   *)
(* byte and 'X' falls into the wildcard arm.                               *)
RECURSIVE FromMaskLoop_UpperIsWildcard(_, _, _, _)
FromMaskLoop_UpperIsWildcard(bytes, mask, i, pattern_bytes) ==
    IF i >= Len(mask) THEN Ok(pattern_bytes, mask)
    ELSE LET mask_char == mask[i + 1]
         IN  IF mask_char = "x"
             THEN FromMaskLoop_UpperIsWildcard(bytes, mask, i + 1,
                                               Append(pattern_bytes, Some(bytes[i + 1])))
             ELSE IF mask_char \in {"?", "X"}
             THEN FromMaskLoop_UpperIsWildcard(bytes, mask, i + 1, Append(pattern_bytes, None))
             ELSE Err("InvalidMaskChar", mask_char)

(* The loop of Pattern::from_bytes_and_mask over mask.chars().enumerate(),  *)
(* from the character of index i on.                                       *)
RECURSIVE FromMaskLoop(_, _, _, _)
FromMaskLoop(bytes, mask, i, pattern_bytes) ==
    IF i >= Len(mask) THEN Ok(pattern_bytes, mask)
    ELSE LET mask_char == mask[i + 1]
         IN  IF mask_char \in {"x", "X"}
             THEN FromMaskLoop(bytes, mask, i + 1, Append(pattern_bytes, Some(bytes[i + 1])))
             ELSE IF mask_char = "?"
             THEN FromMaskLoop(bytes, mask, i + 1, Append(pattern_bytes, None))
             ELSE Err("InvalidMaskChar", mask_char)

(* Pattern::from_bytes_and_mask(bytes, mask) *)
from_bytes_and_mask(bytes, mask) ==
    IF Len(bytes) # StrLen(mask) THEN Err("MaskLengthMismatch", <<>>)
    ELSE FromMaskLoop(bytes, mask, 0, <<>>)

----------------------------------------------------------------------------
(* VTable, CodeHeuristics and VTableScanner (src/vtable.rs).               *)

(* std::mem::size_of::<usize>() *)
PtrSize == WordBytes

(* VTable::new(base_address) *)
VTableNew(base) ==
    [base_address |-> base, functions |-> <<>>, type_info_ptr |-> None, size |-> 0]

(* VTable::add_function(address, index) *)
add_function(vtable, address, index) ==
    LET functions == Append(vtable.functions, [address |-> address, index |-> index])
    IN  [vtable EXCEPT !.functions = functions,
                       !.size = (Len(functions) * PtrSize) + PtrSize]

function_count(vtable) == Len(vtable.functions)

(* The byte patterns has_function_prologue matches; None is the `_` of the *)
(* source's slice patterns.                                                *)
Prologues ==
    { <<Some(85), Some(72), Some(137), Some(229)>>,     \* 55 48 89 E5
      <<Some(85), Some(72), Some(139), Some(236)>>,     \* 55 48 8B EC
      <<Some(72), Some(131), Some(236), None>>,         \* 48 83 EC _
      <<Some(72), Some(129), Some(236), None>>,         \* 48 81 EC _
      <<Some(83), None, None, None>>,                   \* 53 _ _ _
      <<Some(72), Some(137), Some(76), Some(36)>>,      \* 48 89 4C 24
      <<Some(204), None, None, None>> }                 \* CC _ _ _

(* CodeHeuristics::has_function_prologue(data, offset) *)
has_function_prologue(d, offset) ==
    IF offset + 4 > Len(d) THEN FALSE
    ELSE LET bytes == SubSeq(d, offset + 1, offset + 4)
         IN  \E pro \in Prologues :
                \A k \in 1..4 : pro[k] = None \/ pro[k] = Some(bytes[k])

(* A variant of is_valid_function_ptr that accepts every non-null address  *)
(* inside the buffer without looking for a prologue.                       *)
is_valid_function_ptr_NoPrologue(address, d, base_addr, overflow_checks) ==
    LET end == WordAdd(base_addr, ToWord(Len(d)))
    IN  IF address = WordZero THEN "false"
        ELSE IF WordLess(address, base_addr) THEN "false"
        ELSE IF end.overflow /\ overflow_checks THEN "panic"
        ELSE IF WordLess(end.sum, address) THEN "false"
        ELSE LET offset == WordSub(address, base_addr)
             IN  IF ~WordLess(offset, ToWord(Len(d))) THEN "false"
                 ELSE "true"

(* CodeHeuristics::is_valid_function_ptr(address, data, base_addr): "true", *)
(* "false", or "panic" when base_addr + data.len() overflows in a build    *)
(* with overflow checks (without them the sum wraps).                      *)
is_valid_function_ptr(address, d, base_addr, overflow_checks) ==
    LET end == WordAdd(base_addr, ToWord(Len(d)))
    IN  IF address = WordZero THEN "false"
        ELSE IF WordLess(address, base_addr) THEN "false"
        ELSE IF end.overflow /\ overflow_checks THEN "panic"
        ELSE IF WordLess(end.sum, address) THEN "false"
        ELSE LET offset == WordSub(address, base_addr)
             IN  IF ~WordLess(offset, ToWord(Len(d))) THEN "false"
                 ELSE IF has_function_prologue(d, WordToNat(offset)) THEN "true"
                 ELSE "false"

(* CodeHeuristics::is_rtti_type_info(address, data, base_addr) *)
is_rtti_type_info(address, d, base_addr, overflow_checks) ==
    LET end == WordAdd(base_addr, ToWord(Len(d)))
    IN  IF WordLess(address, base_addr) THEN "false"
        ELSE IF end.overflow /\ overflow_checks THEN "panic"
        ELSE IF WordLess(end.sum, address) THEN "false"
        ELSE LET offset == WordSub(address, base_addr)
             IN  IF ~WordIsSmall(offset) \/ WordToNat(offset) + 16 > Len(d) THEN "false"
                 ELSE LET ptr_val == from_le_bytes(SubSeq(d, WordToNat(offset) + 1,
                                                         WordToNat(offset) + 8))
                      IN  IF /\ ptr_val # WordZero
                             /\ WordLeq(base_addr, ptr_val)
                             /\ WordLeq(ptr_val, end.sum)
                          THEN "true" ELSE "false"

(* VTableScanner::read_pointer(data, offset): the 8 bytes at offset, read  *)
(* little-endian.                                                          *)
read_pointer(d, offset) ==
    IF offset + PtrSize > Len(d) THEN WordZero
    ELSE from_le_bytes(SubSeq(d, offset + 1, offset + PtrSize))

(* VTableScanner::is_address_excluded(address) *)
is_address_excluded(cfg, address) ==
    \E k \in 1..Len(cfg.excluded_ranges) :
        /\ WordLeq(cfg.excluded_ranges[k][1], address)
        /\ WordLeq(address, cfg.excluded_ranges[k][2])

Panic == [panic |-> TRUE]
Returns(value) == [panic |-> FALSE, value |-> value]

(* A variant of the collecting loop that never tests function_index        *)
(* against max_functions.                                                  *)
RECURSIVE FunctionsLoop_NoMaxFunctions(_, _, _, _, _, _, _)
FunctionsLoop_NoMaxFunctions(d, base_addr, cfg, overflow_checks, vtable, function_index, current_offset) ==
    IF ~(current_offset + PtrSize <= Len(d))
    THEN Returns(vtable)
    ELSE LET func_ptr == read_pointer(d, current_offset)
             valid    == is_valid_function_ptr(func_ptr, d, base_addr, overflow_checks)
         IN  IF valid = "panic" THEN Panic
             ELSE IF valid = "false" THEN Returns(vtable)
             ELSE FunctionsLoop_NoMaxFunctions(d, base_addr, cfg, overflow_checks,
                                add_function(vtable, func_ptr, function_index),
                                function_index + 1, current_offset + PtrSize)

(* The loop of analyze_potential_vtable that collects function pointers. *)
RECURSIVE FunctionsLoop(_, _, _, _, _, _, _)
FunctionsLoop(d, base_addr, cfg, overflow_checks, vtable, function_index, current_offset) ==
    IF ~(function_index < cfg.max_functions /\ current_offset + PtrSize <= Len(d))
    THEN Returns(vtable)
    ELSE LET func_ptr == read_pointer(d, current_offset)
             valid    == is_valid_function_ptr(func_ptr, d, base_addr, overflow_checks)
         IN  IF valid = "panic" THEN Panic
             ELSE IF valid = "false" THEN Returns(vtable)
             ELSE FunctionsLoop(d, base_addr, cfg, overflow_checks,
                                add_function(vtable, func_ptr, function_index),
                                function_index + 1, current_offset + PtrSize)

(* VTableScanner::analyze_potential_vtable(data, base_addr, offset):       *)
(* Some(vtable), None, or a panic on an overflowing address computation.   *)
analyze_potential_vtable(d, base_addr, offset, cfg, overflow_checks) ==
    LET start == WordAdd(base_addr, ToWord(offset))
        empty == VTableNew(start.sum)
        rtti  == IF cfg.include_rtti /\ offset + PtrSize <= Len(d)
                 THEN is_rtti_type_info(read_pointer(d, offset), d, base_addr,
                                        overflow_checks)
                 ELSE "false"
        first == IF rtti = "true"
                 THEN [empty EXCEPT !.type_info_ptr = Some(read_pointer(d, offset))]
                 ELSE empty
        scanned == FunctionsLoop(d, base_addr, cfg, overflow_checks, first, 0,
                                 IF rtti = "true" THEN offset + PtrSize ELSE offset)
    IN  IF start.overflow /\ overflow_checks THEN Panic
        ELSE IF rtti = "panic" THEN Panic
        ELSE IF scanned.panic THEN Panic
        ELSE IF function_count(scanned.value) >= cfg.min_functions
             THEN Returns(Some(scanned.value))
             ELSE Returns(None)

(* The loop of scan_vtables over the offsets i, i + alignment, ... *)
RECURSIVE ScanLoop(_, _, _, _, _, _)
ScanLoop(d, base_addr, cfg, overflow_checks, i, collected) ==
    IF i >= Len(d) \/ i + PtrSize > Len(d) THEN Returns(collected)
    ELSE LET current_addr == WordAdd(base_addr, ToWord(i))
         IN  IF current_addr.overflow /\ overflow_checks THEN Panic
             ELSE IF is_address_excluded(cfg, current_addr.sum)
             THEN ScanLoop(d, base_addr, cfg, overflow_checks, i + cfg.alignment, collected)
             ELSE LET r == analyze_potential_vtable(d, base_addr, i, cfg, overflow_checks)
                  IN  IF r.panic THEN Panic
                      ELSE ScanLoop(d, base_addr, cfg, overflow_checks,
                                    i + cfg.alignment,
                                    IF r.value = None THEN collected
                                    ELSE Append(collected, r.value[1]))

(* VTableScanner::scan_vtables(data, base_address); step_by(0) panics. *)
scan_vtables(d, base_addr, cfg, overflow_checks) ==
    IF cfg.alignment = 0 THEN Panic
    ELSE ScanLoop(d, base_addr, cfg, overflow_checks, 0, <<>>)

----------------------------------------------------------------------------
(* The inputs drawn and the idle value of each component's state.          *)

PatternBytes == {None} \cup {Some(b) : b \in ScanBytes}
Patterns     == SeqsUpTo(PatternBytes, MaxPatLen)
Buffers      == SeqsUpTo(ScanBytes, MaxDataLen)

Matchers == {"Naive", "BoyerMoore", "Kmp", "Hybrid"}

NoCall == [op |-> "none"]

(* VTableScanConfig::default() *)
DefaultConfig ==
    [min_functions   |-> 2,
     max_functions   |-> 256,
     include_rtti    |-> TRUE,
     alignment       |-> WordBytes,
     excluded_ranges |-> <<>>]

PatternIdle == pattern = <<>> /\ data = <<>> /\ found = NoCall
CtorIdle    == ctor = NoCall
VTableIdle  ==
    /\ buffer = <<>>
    /\ base_address = WordZero
    /\ config = DefaultConfig
    /\ vscan = NoCall
MemoryIdle  == scanner = NoCall /\ enumeration = NoCall /\ memory = <<>>
EngineIdle  == engine = NoCall
CallerIdle  == [pc |-> "idle", op |-> "none", returned |-> <<>>]
HooksIdle   ==
    /\ GLOBAL_ANY = <<>>
    /\ RUNNING = FALSE
    /\ SHUTDOWN = FALSE
    /\ watchers = <<>>
    /\ caller = CallerIdle

----------------------------------------------------------------------------
(* The matchers applied to a pattern and a buffer.                         *)

InitScan ==
    /\ pattern \in Patterns
    /\ data \in Buffers
    /\ found = NoCall
    /\ CtorIdle
    /\ VTableIdle
    /\ MemoryIdle
    /\ EngineIdle /\ HooksIdle

(* matcher.find_all(&pattern, &data), for each matcher; the default      *)
(* PatternScanner's scan_pattern is the hybrid matcher's find_all         *)
CallFindAll ==
    /\ found = NoCall
    /\ \E m \in Matchers :
            found' = [op      |-> "find_all",
                      matcher |-> m,
                      matches |-> IF m = "Hybrid" THEN scan_pattern(pattern, data)
                                  ELSE FindAll(m, pattern, data)]
    /\ UNCHANGED <<pattern, data, ctor, vtableVars, memoryVars, engine, hookVars>>

Next == CallFindAll

Spec == InitScan /\ [][Next]_vars

----------------------------------------------------------------------------
(* Pattern::matches_at applied at an arbitrary usize offset.               *)

MaxOffsetPastEnd == 1   \* offsets are drawn up to this far past the buffer's end
TopOffsets       == 4   \* how many of the largest usize values are drawn as offsets

LowOffsets  == {ToWord(n) : n \in 0..(MaxDataLen + MaxOffsetPastEnd)}
HighOffsets == {WordSub(WordMax, ToWord(k)) : k \in 0..(TopOffsets - 1)}

(* pattern.matches_at(&data, offset), for a drawn offset, in a build with *)
(* or without overflow checks                                             *)
CallMatchesAt ==
    /\ found = NoCall
    /\ \E offset \in LowOffsets \cup HighOffsets, overflow_checks \in BOOLEAN :
            found' = [op              |-> "matches_at",
                      offset          |-> offset,
                      overflow_checks |-> overflow_checks,
                      outcome         |-> matches_at(pattern, data, offset, overflow_checks)]
    /\ UNCHANGED <<pattern, data, ctor, vtableVars, memoryVars, engine, hookVars>>

NextMatchesAt == CallMatchesAt

SpecMatchesAt == InitScan /\ [][NextMatchesAt]_vars

----------------------------------------------------------------------------
(* What the claims about the matchers are stated with.                     *)

(* The offsets at which the pattern matches, by definition: the window     *)
(* lies inside the buffer and every known byte equals the buffer's.        *)
MatchOffsets(p, d) ==
    {i \in 0..(Len(d) - Len(p)) :
        \A k \in 1..Len(p) : p[k] = None \/ d[i + k] = p[k][1]}

RECURSIVE Ascending(_)
Ascending(S) ==
    IF S = {} THEN <<>>
    ELSE LET least == CHOOSE x \in S : \A y \in S : x <= y
         IN  <<least>> \o Ascending(S \ {least})

Offsets(matches) == [k \in 1..Len(matches) |-> matches[k].offset]
OffsetSet(matches) == {matches[k].offset : k \in 1..Len(matches)}

(* C1: for every (non-empty) pattern and every buffer, the default scanner *)
(* returns exactly the offsets at which the pattern matches, each once, in *)
(* ascending order: what NaiveMatcher::find_all returns.                   *)
C1_HybridReturnsExactlyTheMatches ==
    (found.op = "find_all" /\ found.matcher = "Hybrid" /\ PatternLen(pattern) >= 1)
        => /\ Offsets(found.matches) = Ascending(MatchOffsets(pattern, data))
           /\ found.matches = NaiveFindAll(pattern, data)

C3_KmpWithWildcardsIsExact ==
    (found.op = "find_all" /\ found.matcher = "Kmp" /\ WildcardCount(pattern) > 0)
        => found.matches = NaiveFindAll(pattern, data)

(* C4: Boyer-Moore never shifts past a match: it reports every offset the  *)
(* naive matcher reports, with or without wildcards in the pattern.        *)
C4_BoyerMooreMissesNoMatch ==
    (found.op = "find_all" /\ found.matcher = "BoyerMoore")
        => OffsetSet(NaiveFindAll(pattern, data)) \subseteq OffsetSet(found.matches)

(* C5: matches_at returns false (it neither panics nor returns true)       *)
(* whenever offset + pattern.len(), as a number, exceeds data.len(); this  *)
(* includes the offsets for which the machine sum wraps.                   *)
C5_MatchesAtFalsePastEnd ==
    LET end == WordAdd(found.offset, ToWord(PatternLen(pattern)))
    IN  (found.op = "matches_at"
            /\ (end.overflow \/ WordLess(ToWord(Len(data)), end.sum)))
            => found.outcome = "false"

----------------------------------------------------------------------------
(* The two constructors of Pattern applied to drawn arguments.             *)

MaxSpecLen == 5     \* longest pattern string handed to Pattern::new
MaxMaskLen == 3     \* longest mask handed to Pattern::from_bytes_and_mask
MaxRawLen  == 3     \* longest byte buffer handed to Pattern::from_bytes_and_mask

SpecChars == {" ", "?", "4", "B", "g", "+", NonAscii}
MaskChars == {"x", "X", "?", "y", NonAscii}

InitCtor ==
    /\ PatternIdle
    /\ ctor = NoCall
    /\ VTableIdle
    /\ MemoryIdle
    /\ EngineIdle /\ HooksIdle

(* Pattern::new(pattern_str), for a drawn string *)
CallNew ==
    /\ ctor = NoCall
    /\ \E pattern_str \in SeqsUpTo(SpecChars, MaxSpecLen) :
            ctor' = [op          |-> "new",
                     pattern_str |-> pattern_str,
                     result      |-> PatternNew(pattern_str)]
    /\ UNCHANGED <<patternVars, vtableVars, memoryVars, engine, hookVars>>

(* Pattern::from_bytes_and_mask(bytes, mask), for a drawn buffer and mask *)
CallFromBytesAndMask ==
    /\ ctor = NoCall
    /\ \E bytes \in SeqsUpTo(ScanBytes, MaxRawLen), mask \in SeqsUpTo(MaskChars, MaxMaskLen) :
            ctor' = [op     |-> "from_bytes_and_mask",
                     bytes  |-> bytes,
                     mask   |-> mask,
                     result |-> from_bytes_and_mask(bytes, mask)]
    /\ UNCHANGED <<patternVars, vtableVars, memoryVars, engine, hookVars>>

NextCtor == CallNew \/ CallFromBytesAndMask

SpecCtor == InitCtor /\ [][NextCtor]_vars

(* What Pattern::new's grammar says of one token. *)
TokenIsWildcard(t) == t = <<"?">> \/ t = <<"?", "?">>
TokenIsHexByte(t)  == Len(t) = 2 /\ IsHexDigit(t[1]) /\ IsHexDigit(t[2])
TokenIsValid(t)    == TokenIsWildcard(t) \/ TokenIsHexByte(t)

(* C6: Pattern::new accepts a string iff it has a token and every token is *)
(* two hex digits or ?/??; then bytes and mask follow the tokens in order. *)
(* Otherwise it fails at the first bad token, with InvalidHex when that    *)
(* token's length is 2 and InvalidPatternFormat for any other length, and  *)
(* with EmptyPattern when there is no token.                               *)
C6_NewAcceptsExactlyTheGrammar ==
    ctor.op = "new" =>
        LET parts == split_whitespace(ctor.pattern_str)
            bad   == {k \in 1..Len(parts) : ~TokenIsValid(parts[k])}
            first == parts[CHOOSE k \in bad : \A l \in bad : k <= l]
        IN  IF parts = <<>> THEN ctor.result = Err("EmptyPattern", <<>>)
            ELSE IF bad # {}
            THEN ctor.result =
                    Err(IF StrLen(first) = 2 THEN "InvalidHex" ELSE "InvalidPatternFormat",
                        first)
            ELSE /\ ctor.result.ok
                 /\ Len(ctor.result.bytes) = Len(parts)
                 /\ Len(ctor.result.mask) = Len(parts)
                 /\ \A k \in 1..Len(parts) :
                        IF TokenIsWildcard(parts[k])
                        THEN ctor.result.bytes[k] = None /\ ctor.result.mask[k] = "?"
                        ELSE /\ ctor.result.bytes[k] =
                                    Some(16 * HexValue(parts[k][1]) + HexValue(parts[k][2]))
                             /\ ctor.result.mask[k] = "x"

(* C7: a pattern returned by either constructor is non-empty. *)
C7_ConstructedPatternNonEmpty ==
    (ctor.op \in {"new", "from_bytes_and_mask"} /\ ctor.result.ok)
        => Len(ctor.result.bytes) >= 1

(* C8: from_bytes_and_mask fails with MaskLengthMismatch when buffer and   *)
(* mask differ in length (before it looks at any mask character), else     *)
(* with InvalidMaskChar for the first mask character outside {x, X, ?},    *)
(* and else returns a pattern whose mask is as long as its bytes and whose *)
(* position i is a wildcard exactly when mask character i is '?'.          *)
C8_FromBytesAndMaskContract ==
    ctor.op = "from_bytes_and_mask" =>
        LET bad == {k \in 1..Len(ctor.mask) : ctor.mask[k] \notin {"x", "X", "?"}}
        IN  IF Len(ctor.bytes) # StrLen(ctor.mask)
            THEN ctor.result = Err("MaskLengthMismatch", <<>>)
            ELSE IF bad # {}
            THEN ctor.result =
                    Err("InvalidMaskChar", ctor.mask[CHOOSE k \in bad : \A l \in bad : k <= l])
            ELSE /\ ctor.result.ok
                 /\ StrLen(ctor.result.mask) = Len(ctor.result.bytes)
                 /\ Len(ctor.result.bytes) = Len(ctor.bytes)
                 /\ \A k \in 1..Len(ctor.result.bytes) :
                        (ctor.result.bytes[k] = None) <=> (ctor.mask[k] = "?")

(* C8's cases: a pattern built from a mask that holds 'x', 'X' and '?'; a  *)
(* mask as long as the buffer in bytes but not in characters.              *)
C8_Witness ==
    /\ ctor.op = "from_bytes_and_mask"
    /\ ctor.result.ok
    /\ {"x", "X", "?"} \subseteq {ctor.mask[k] : k \in 1..Len(ctor.mask)}

----------------------------------------------------------------------------
(* VTableScanner::scan_vtables applied to drawn buffers.  A buffer is a    *)
(* sequence of pointer-sized slots, each holding one of a few words.       *)

MaxSlots          == 5   \* most pointer-sized slots in a scanned buffer
MaxMinFunctions   == 4   \* largest min_functions configured
SmallMaxFunctions == 3   \* a max_functions below the longest run of pointers

(* int3 followed by zero bytes: a recognised prologue when pointed at, and *)
(* as a pointer the address 0xCC.                                          *)
Int3Word == ToWord(204)

(* The address of the slot of index k. *)
SlotAddress(base, k) == WordAdd(base, ToWord(k * PtrSize)).sum

(* The words a slot of a buffer of n slots is drawn from. *)
SlotWords(base, n) ==
    {WordZero, Int3Word, SlotAddress(base, 0), SlotAddress(base, n - 1)}

(* The bytes of a buffer whose slots hold the given words. *)
RECURSIVE Flatten(_)
Flatten(words) ==
    IF words = <<>> THEN <<>> ELSE to_le_bytes(Head(words)) \o Flatten(Tail(words))

ScanBuffers(base) ==
    UNION { {Flatten(words) : words \in [1..n -> SlotWords(base, n)]} : n \in 0..MaxSlots }

BaseAddresses == {ToWord(4096)}

ScanConfigs ==
    [min_functions   : 0..MaxMinFunctions,
     max_functions   : {SmallMaxFunctions, DefaultConfig.max_functions},
     include_rtti    : BOOLEAN,
     alignment       : {DefaultConfig.alignment},
     excluded_ranges : {<<>>}]

InitVTable ==
    /\ PatternIdle
    /\ CtorIdle
    /\ base_address \in BaseAddresses
    /\ buffer \in ScanBuffers(base_address)
    /\ config \in ScanConfigs
    /\ vscan = NoCall
    /\ MemoryIdle
    /\ EngineIdle /\ HooksIdle

(* VTableScanner::with_config(config).scan_vtables(&buffer, base_address), *)
(* in a build with or without overflow checks                              *)
CallScanVTables ==
    /\ vscan = NoCall
    /\ \E overflow_checks \in BOOLEAN :
            LET r == scan_vtables(buffer, base_address, config, overflow_checks)
            IN  vscan' = [op              |-> "scan_vtables",
                          overflow_checks |-> overflow_checks,
                          panic           |-> r.panic,
                          vtables         |-> IF r.panic THEN <<>> ELSE r.value]
    /\ UNCHANGED <<patternVars, ctor, buffer, base_address, config, memoryVars, engine, hookVars>>

NextVTable == CallScanVTables

SpecVTable == InitVTable /\ [][NextVTable]_vars

(* Whether the slot of index k holds a pointer scan_vtables accepts as a   *)
(* virtual function entry.                                                 *)
SlotCount == Len(buffer) \div PtrSize
SlotIsFunctionPtr(k) ==
    is_valid_function_ptr(read_pointer(buffer, k * PtrSize), buffer, base_address, FALSE)
        = "true"

(* The buffer holds one run of valid entries: the 4 slots from slot s on,  *)
(* followed by a slot that is none; no other slot holds a valid entry.     *)
FourEntriesThenOther(s) ==
    /\ s + 4 < SlotCount
    /\ \A k \in 0..(SlotCount - 1) : SlotIsFunctionPtr(k) <=> (s <= k /\ k < s + 4)

(* C9: on a buffer with 4 consecutive valid entries followed by a value    *)
(* that is none, scanning with min_functions <= 4 (and room for 4          *)
(* functions) yields exactly one VTable, and it has 4 functions.           *)
C9_FourEntriesYieldOneVTable ==
    (/\ vscan.op = "scan_vtables" /\ ~vscan.panic
     /\ \E s \in 0..MaxSlots : FourEntriesThenOther(s)
     /\ config.min_functions <= 4 /\ config.max_functions >= 4)
        => /\ Len(vscan.vtables) = 1
           /\ function_count(vscan.vtables[1]) = 4

(* C10: the size of every returned VTable (with a function) is its         *)
(* function count times the pointer size, plus one pointer exactly when it *)
(* has a type-info pointer.                                                *)
C10_SizeCountsRttiOnlyWhenPresent ==
    (vscan.op = "scan_vtables" /\ ~vscan.panic) =>
        \A k \in 1..Len(vscan.vtables) :
            function_count(vscan.vtables[k]) >= 1 =>
              vscan.vtables[k].size =
                function_count(vscan.vtables[k]) * PtrSize
                    + (IF vscan.vtables[k].type_info_ptr # None THEN PtrSize ELSE 0)

(* The offset in the buffer of the first function slot of a returned       *)
(* VTable: its own offset, past the type-info slot when it has one.        *)
FirstFunctionOffset(vtable) ==
    WordToNat(WordSub(vtable.base_address, base_address))
        + (IF vtable.type_info_ptr # None THEN PtrSize ELSE 0)

(* C19: every VTable scan_vtables returns has between min_functions and    *)
(* max_functions functions, its k-th function (counting from 0) has index  *)
(* k, and its k-th function address is the pointer stored in the k-th      *)
(* consecutive pointer-sized slot after the optional type-info slot.       *)
C19_VTableFunctionsAreTheConsecutiveSlots ==
    (vscan.op = "scan_vtables" /\ ~vscan.panic) =>
        \A t \in 1..Len(vscan.vtables) :
            LET vtable == vscan.vtables[t]
                first  == FirstFunctionOffset(vtable)
            IN  /\ config.min_functions <= function_count(vtable)
                /\ function_count(vtable) <= config.max_functions
                /\ first + function_count(vtable) * PtrSize <= Len(buffer)
                /\ \A k \in 0..(function_count(vtable) - 1) :
                        /\ vtable.functions[k + 1].index = k
                        /\ vtable.functions[k + 1].address =
                               read_pointer(buffer, first + k * PtrSize)

(* A scan has returned a VTable with a type-info pointer and as many       *)
(* functions as max_functions allows, more than one.                       *)
C19_Witness ==
    /\ vscan.op = "scan_vtables" /\ ~vscan.panic
    /\ \E t \in 1..Len(vscan.vtables) :
            /\ vscan.vtables[t].type_info_ptr # None
            /\ function_count(vscan.vtables[t]) = config.max_functions
            /\ function_count(vscan.vtables[t]) >= 2
            /\ config.min_functions >= 1

----------------------------------------------------------------------------
(* VTableScanner::scan_vtables applied to buffers at base addresses near   *)
(* the top of the address range, where base_address + data.len() may       *)
(* exceed usize::MAX.                                                      *)

MaxTopSlots == 3   \* most pointer-sized slots in a buffer near the top

(* How far below usize::MAX the base addresses drawn lie. *)
TopBaseDistances == {15, 16, 31}
TopBaseAddresses == {WordSub(WordMax, ToWord(k)) : k \in TopBaseDistances}

TopScanBuffers(base) ==
    UNION { {Flatten(words) : words \in [1..n -> SlotWords(base, n) \cup {WordMax}]} :
                n \in 0..MaxTopSlots }

InitVTableTop ==
    /\ PatternIdle
    /\ CtorIdle
    /\ base_address \in TopBaseAddresses
    /\ buffer \in TopScanBuffers(base_address)
    /\ config \in ScanConfigs
    /\ vscan = NoCall
    /\ MemoryIdle
    /\ EngineIdle /\ HooksIdle

SpecVTableTop == InitVTableTop /\ [][NextVTable]_vars

(* Whether base_address + len(buffer) exceeds usize::MAX. *)
EndWraps == WordAdd(base_address, ToWord(Len(buffer))).overflow

(* The function addresses of the VTables a scan returned. *)
ReturnedFunctionAddresses ==
    UNION { {vscan.vtables[t].functions[k].address :
                k \in 1..function_count(vscan.vtables[t])} :
            t \in 1..Len(vscan.vtables) }

(* C20: for every buffer and base address, also where base_address +       *)
(* len(buffer) wraps, every function address of a returned VTable is       *)
(* non-null, lies in [base_address, base_address + len(buffer)) and points *)
(* at 4 bytes inside the buffer that match a recognised prologue; and no   *)
(* byte outside the buffer is read: a build without overflow checks, whose *)
(* only panic is an out-of-range slice, never panics.                      *)
C20_FunctionAddressesInsideBuffer ==
    vscan.op = "scan_vtables" =>
        /\ ~vscan.overflow_checks => ~vscan.panic
        /\ \A address \in ReturnedFunctionAddresses :
                LET offset == WordSub(address, base_address)
                IN  /\ address # WordZero
                    /\ WordLeq(base_address, address)
                    /\ WordIsSmall(offset)
                    /\ WordToNat(offset) + 4 <= Len(buffer)
                    /\ has_function_prologue(buffer, WordToNat(offset))

(* A scan of a buffer that ends below usize::MAX, at a base address near   *)
(* the top, has returned a VTable with a function.                         *)
C20_Witness ==
    /\ vscan.op = "scan_vtables" /\ ~vscan.panic
    /\ base_address \in TopBaseAddresses
    /\ ReturnedFunctionAddresses # {}

----------------------------------------------------------------------------
(* VTableScanner::scan_vtables applied to buffers mapped at address 0.     *)

InitVTableZero ==
    /\ PatternIdle
    /\ CtorIdle
    /\ base_address = WordZero
    /\ buffer \in ScanBuffers(base_address)
    /\ config \in ScanConfigs
    /\ vscan = NoCall
    /\ MemoryIdle
    /\ EngineIdle /\ HooksIdle

SpecVTableZero == InitVTableZero /\ [][NextVTable]_vars

(* The offset in the buffer at which a returned VTable starts. *)
VTableOffset(vtable) == WordToNat(WordSub(vtable.base_address, base_address))

(* C21: every VTable scan_vtables returns with type_info_ptr = Some(p) has *)
(* p non-null and base_address <= p <= base_address + len(buffer), also at *)
(* base address 0; with include_rtti = false every returned VTable has no  *)
(* type-info pointer and its first function is read from the slot at its   *)
(* base address.                                                           *)
C21_TypeInfoPointerNonNullInRange ==
    (vscan.op = "scan_vtables" /\ ~vscan.panic) =>
        \A t \in 1..Len(vscan.vtables) :
            LET vtable == vscan.vtables[t]
                end    == WordAdd(base_address, ToWord(Len(buffer)))
            IN  /\ vtable.type_info_ptr # None =>
                        /\ vtable.type_info_ptr[1] # WordZero
                        /\ WordLeq(base_address, vtable.type_info_ptr[1])
                        /\ ~end.overflow
                        /\ WordLeq(vtable.type_info_ptr[1], end.sum)
                /\ ~config.include_rtti =>
                        /\ vtable.type_info_ptr = None
                        /\ function_count(vtable) >= 1 =>
                              vtable.functions[1].address =
                                  read_pointer(buffer, VTableOffset(vtable))

----------------------------------------------------------------------------
(* VTableScanner::scan_vtables under configurations with excluded ranges.  *)

(* The interval of addresses of the slots of index first..last. *)
SlotRange(base, first, last) ==
    <<SlotAddress(base, first), WordAdd(SlotAddress(base, last), ToWord(PtrSize - 1)).sum>>

ExcludedRangeLists(base) ==
    { <<SlotRange(base, 0, 0)>>,
      <<SlotRange(base, 1, 1)>>,
      <<SlotRange(base, 0, 0), SlotRange(base, 3, 4)>> }

ExcludingConfigs(base) ==
    [min_functions   : {1, DefaultConfig.min_functions},
     max_functions   : {DefaultConfig.max_functions},
     include_rtti    : BOOLEAN,
     alignment       : {DefaultConfig.alignment},
     excluded_ranges : ExcludedRangeLists(base)]

InitVTableExcluded ==
    /\ PatternIdle
    /\ CtorIdle
    /\ base_address \in BaseAddresses
    /\ buffer \in ScanBuffers(base_address)
    /\ config \in ExcludingConfigs(base_address)
    /\ vscan = NoCall
    /\ MemoryIdle
    /\ EngineIdle /\ HooksIdle

SpecVTableExcluded == InitVTableExcluded /\ [][NextVTable]_vars

(* Whether an address lies in one of the configured excluded intervals. *)
InExcludedRange(address) ==
    \E k \in 1..Len(config.excluded_ranges) :
        /\ WordLeq(config.excluded_ranges[k][1], address)
        /\ WordLeq(address, config.excluded_ranges[k][2])

(* The offsets of the pointer slots a returned VTable is made of: the slot *)
(* at its base (its type-info slot, if it has one) and its function slots. *)
VTableSlotOffsets(vtable) ==
    {VTableOffset(vtable)}
        \cup {FirstFunctionOffset(vtable) + k * PtrSize :
                 k \in 0..(function_count(vtable) - 1)}

(* C22: no pointer slot of a VTable that scan_vtables returns, its base    *)
(* or type-info slot or any of its function slots, has an address inside   *)
(* an excluded interval [start, end].                                      *)
C22_NoVTableSlotInExcludedRange ==
    (vscan.op = "scan_vtables" /\ ~vscan.panic) =>
        \A t \in 1..Len(vscan.vtables) :
            \A offset \in VTableSlotOffsets(vscan.vtables[t]) :
                ~InExcludedRange(WordAdd(base_address, ToWord(offset)).sum)

----------------------------------------------------------------------------
(* VTableScanner::analyze_inheritance applied to drawn lists of VTables.   *)

(* VTable::get_function(index): functions.get(index).copied() *)
get_function(vtable, index) ==
    IF index < Len(vtable.functions) THEN Some(vtable.functions[index + 1]) ELSE None

(* The loop of is_derived_vtable from index i on. *)
RECURSIVE DerivedFrom(_, _, _)
DerivedFrom(base, derived, i) ==
    IF i >= Len(base.functions) THEN TRUE
    ELSE LET base_func    == get_function(base, i)
             derived_func == get_function(derived, i)
         IN  IF base_func # None /\ derived_func # None
                /\ base_func[1].address # derived_func[1].address
             THEN FALSE
             ELSE DerivedFrom(base, derived, i + 1)

(* is_derived_vtable without its comparison of the function counts *)
is_derived_vtable_NoCountCheck(base, derived) == DerivedFrom(base, derived, 0)

(* VTableScanner::is_derived_vtable(base, derived) *)
is_derived_vtable(base, derived) ==
    IF function_count(derived) < function_count(base) THEN FALSE
    ELSE DerivedFrom(base, derived, 0)

(* The inner loop of analyze_inheritance from index j on. *)
RECURSIVE DerivedLoop(_, _, _, _)
DerivedLoop(vtables, base_vtable, j, derived_vtables) ==
    IF j > Len(vtables) THEN derived_vtables
    ELSE LET derived_vtable == vtables[j]
         IN  IF base_vtable.base_address = derived_vtable.base_address
             THEN DerivedLoop(vtables, base_vtable, j + 1, derived_vtables)
             ELSE IF is_derived_vtable(base_vtable, derived_vtable)
             THEN DerivedLoop(vtables, base_vtable, j + 1,
                              Append(derived_vtables, derived_vtable.base_address))
             ELSE DerivedLoop(vtables, base_vtable, j + 1, derived_vtables)

(* HashMap::insert(key, value) on a map held as a function *)
MapInsert(map, key, value) ==
    [k \in (DOMAIN map) \cup {key} |-> IF k = key THEN value ELSE map[k]]

(* HashMap::new() *)
EmptyMap == [k \in {} |-> <<>>]

(* The outer loop of analyze_inheritance from index i on. *)
RECURSIVE InheritanceLoop(_, _, _)
InheritanceLoop(vtables, i, inheritance_map) ==
    IF i > Len(vtables) THEN inheritance_map
    ELSE LET base_vtable     == vtables[i]
             derived_vtables == DerivedLoop(vtables, base_vtable, 1, <<>>)
         IN  InheritanceLoop(vtables, i + 1,
                 IF derived_vtables # <<>>
                 THEN MapInsert(inheritance_map, base_vtable.base_address, derived_vtables)
                 ELSE inheritance_map)

(* VTableScanner::analyze_inheritance(vtables) *)
analyze_inheritance(vtables) == InheritanceLoop(vtables, 1, EmptyMap)

MaxTables == 3   \* most VTables in a list handed to analyze_inheritance

(* Function addresses A, B, C and X, and the function lists drawn. *)
FnA == ToWord(8192)
FnB == ToWord(8208)
FnC == ToWord(8224)
FnX == ToWord(8240)
FunctionLists ==
    SeqsUpTo({FnA, FnB}, 2) \cup {<<FnA, FnB, FnC>>, <<FnA, FnX, FnC>>}

(* A VTable built as the scanner builds it: new, then add_function for     *)
(* each address in order.                                                  *)
RECURSIVE BuildVTable(_, _, _)
BuildVTable(vtable, addresses, index) ==
    IF index >= Len(addresses) THEN vtable
    ELSE BuildVTable(add_function(vtable, addresses[index + 1], index), addresses, index + 1)

TableAddresses == {ToWord(4096 + (64 * k)) : k \in 0..(MaxTables - 1)}

(* Lists of n VTables at pairwise different base addresses, as a scan      *)
(* returns them.                                                           *)
TableLists(n) ==
    { [k \in 1..n |-> BuildVTable(VTableNew(bases[k]), lists[k], 0)] :
        bases \in {f \in [1..n -> TableAddresses] :
                      \A a, b \in 1..n : a # b => f[a] # f[b]},
        lists \in [1..n -> FunctionLists] }

(* scanner.analyze_inheritance(&vtables), for a drawn list *)
CallAnalyzeInheritance ==
    /\ vscan = NoCall
    /\ \E n \in 0..MaxTables : \E vtables \in TableLists(n) :
            vscan' = [op              |-> "analyze_inheritance",
                      vtables         |-> vtables,
                      inheritance_map |-> analyze_inheritance(vtables)]
    /\ UNCHANGED <<patternVars, ctor, buffer, base_address, config, memoryVars, engine, hookVars>>

InitInheritance == PatternIdle /\ CtorIdle /\ VTableIdle /\ MemoryIdle /\ EngineIdle /\ HooksIdle

NextInheritance == CallAnalyzeInheritance

SpecInheritance == InitInheritance /\ [][NextInheritance]_vars

(* The addresses of a VTable's functions, in index order. *)
FunctionAddresses(vtable) ==
    [k \in 1..Len(vtable.functions) |-> vtable.functions[k].address]

(* B extends A: B has at least A's functions and starts with them. *)
Extends(a, b) ==
    /\ function_count(b) >= function_count(a)
    /\ SubSeq(FunctionAddresses(b), 1, function_count(a)) = FunctionAddresses(a)

(* The base addresses of the VTables of the list that extend the i-th one. *)
DerivedOf(vtables, i) ==
    { vtables[j].base_address : j \in
        { j \in 1..Len(vtables) : /\ vtables[j].base_address # vtables[i].base_address
                                  /\ Extends(vtables[i], vtables[j]) } }

(* C11: analyze_inheritance maps each VTable to exactly the VTables at     *)
(* another base address that have at least its functions and start with    *)
(* them, each listed once, and has a key only for a non-empty list.        *)
C11_InheritanceMapIsPrefixRelation ==
    vscan.op = "analyze_inheritance" =>
        LET vtables == vscan.vtables
            map     == vscan.inheritance_map
        IN  /\ DOMAIN map \subseteq {vtables[i].base_address : i \in 1..Len(vtables)}
            /\ \A i \in 1..Len(vtables) :
                 LET key == vtables[i].base_address
                 IN  /\ key \in DOMAIN map <=> DerivedOf(vtables, i) # {}
                     /\ key \in DOMAIN map =>
                          /\ {map[key][k] : k \in 1..Len(map[key])} = DerivedOf(vtables, i)
                          /\ Len(map[key]) = Cardinality(DerivedOf(vtables, i))

(* A list with base [A,B], candidate [A,B,C] and candidate [A,X,C]: the    *)
(* first candidate is listed under the base, the second is not.            *)
C11_Witness ==
    /\ vscan.op = "analyze_inheritance"
    /\ \E i, j, k \in 1..Len(vscan.vtables) :
         /\ FunctionAddresses(vscan.vtables[i]) = <<FnA, FnB>>
         /\ FunctionAddresses(vscan.vtables[j]) = <<FnA, FnB, FnC>>
         /\ FunctionAddresses(vscan.vtables[k]) = <<FnA, FnX, FnC>>
         /\ vscan.inheritance_map[vscan.vtables[i].base_address]
                = <<vscan.vtables[j].base_address>>

----------------------------------------------------------------------------
(* VTableAnalyzer::reconstruct_hierarchy and the ClassHierarchy it builds. *)

(* format!("{:X}", n) for an address below 2^24 *)
RECURSIVE UpperHexDigits(_)
UpperHexDigits(n) ==
    IF n < 16 THEN <<UpperHex[n + 1]>>
    ELSE Append(UpperHexDigits(n \div 16), UpperHex[(n % 16) + 1])

(* VTable::estimated_class_name() *)
estimated_class_name(vtable) ==
    Some(<<"C", "l", "a", "s", "s", "_">> \o UpperHexDigits(WordToNat(vtable.base_address)))

(* A variant of the loop below that fills base_classes as well, with the   *)
(* list it computes for derived_classes.                                   *)
RECURSIVE HierarchyLoop_FillsBaseClasses(_, _, _, _)
HierarchyLoop_FillsBaseClasses(vtables, inheritance_map, k, classes) ==
    IF k > Len(vtables) THEN classes
    ELSE LET vtable == vtables[k]
             class_info ==
                 [vtable_address  |-> vtable.base_address,
                  name            |-> estimated_class_name(vtable)[1],
                  functions       |-> vtable.functions,
                  base_classes    |-> DerivedLoop(vtables, vtable, 1, <<>>),
                  derived_classes |->
                      IF vtable.base_address \in DOMAIN inheritance_map
                      THEN inheritance_map[vtable.base_address] ELSE <<>>]
         IN  HierarchyLoop_FillsBaseClasses(vtables, inheritance_map, k + 1,
                 MapInsert(classes, class_info.vtable_address, class_info))

(* The loop of reconstruct_hierarchy over the VTables, from index k on:    *)
(* build the ClassInfo and add_class it (HashMap::insert by address).      *)
RECURSIVE HierarchyLoop(_, _, _, _)
HierarchyLoop(vtables, inheritance_map, k, classes) ==
    IF k > Len(vtables) THEN classes
    ELSE LET vtable == vtables[k]
             class_info ==
                 [vtable_address  |-> vtable.base_address,
                  name            |-> estimated_class_name(vtable)[1],
                  functions       |-> vtable.functions,
                  base_classes    |-> <<>>,
                  derived_classes |->
                      IF vtable.base_address \in DOMAIN inheritance_map
                      THEN inheritance_map[vtable.base_address] ELSE <<>>]
         IN  HierarchyLoop(vtables, inheritance_map, k + 1,
                           MapInsert(classes, class_info.vtable_address, class_info))

(* VTableAnalyzer::reconstruct_hierarchy(vtables): the hierarchy's classes *)
(* map.                                                                    *)
reconstruct_hierarchy(vtables) ==
    HierarchyLoop(vtables, analyze_inheritance(vtables), 1, EmptyMap)

(* ClassHierarchy::find_root_classes / find_leaf_classes: the addresses of *)
(* the classes returned (the order is the HashMap's).                      *)
find_root_classes(classes) ==
    {a \in DOMAIN classes : classes[a].base_classes = <<>>}
find_leaf_classes(classes) ==
    {a \in DOMAIN classes : classes[a].derived_classes = <<>>}

(* VTableAnalyzer::reconstruct_hierarchy(&vtables), then the two queries *)
CallReconstructHierarchy ==
    /\ vscan = NoCall
    /\ \E n \in 0..MaxTables : \E vtables \in TableLists(n) :
            LET classes == reconstruct_hierarchy(vtables)
            IN  vscan' = [op      |-> "reconstruct_hierarchy",
                          vtables |-> vtables,
                          classes |-> classes,
                          roots   |-> find_root_classes(classes),
                          leaves  |-> find_leaf_classes(classes)]
    /\ UNCHANGED <<patternVars, ctor, buffer, base_address, config, memoryVars, engine, hookVars>>

NextHierarchy == CallReconstructHierarchy

SpecHierarchy == InitInheritance /\ [][NextHierarchy]_vars

(* C23: after reconstruct_hierarchy every ClassInfo has an empty           *)
(* base_classes list and derived_classes equal to the inheritance map      *)
(* entry of its VTable; find_root_classes returns every class, also one    *)
(* listed in another class's derived_classes, and find_leaf_classes        *)
(* returns exactly the classes with no derived VTable.                     *)
C23_RootsAreAllClassesLeavesHaveNoDerived ==
    vscan.op = "reconstruct_hierarchy" =>
        LET vtables == vscan.vtables
            map     == analyze_inheritance(vtables)
        IN  /\ DOMAIN vscan.classes = {vtables[i].base_address : i \in 1..Len(vtables)}
            /\ \A i \in 1..Len(vtables) :
                 LET class == vscan.classes[vtables[i].base_address]
                 IN  /\ class.base_classes = <<>>
                     /\ class.derived_classes =
                            (IF vtables[i].base_address \in DOMAIN map
                             THEN map[vtables[i].base_address] ELSE <<>>)
            /\ vscan.roots = DOMAIN vscan.classes
            /\ vscan.leaves =
                   {vtables[i].base_address : i \in
                       {i \in 1..Len(vtables) : DerivedOf(vtables, i) = {}}}

(* A hierarchy in which a class listed as derived from another is          *)
(* returned as a root, and some class is no leaf.                          *)
C23_Witness ==
    /\ vscan.op = "reconstruct_hierarchy"
    /\ \E a, b \in DOMAIN vscan.classes :
            /\ vscan.classes[a].derived_classes = <<b>>
            /\ vscan.classes[b].derived_classes = <<>>
            /\ b \in vscan.roots
            /\ a \notin vscan.leaves
            /\ b \in vscan.leaves

----------------------------------------------------------------------------
(* <ClassHierarchy as Display>::fmt, one call or return of                 *)
(* print_class_tree at a time.  The call stack is a sequence of frames,    *)
(* each with the class printed and the index of the next entry of its      *)
(* derived_classes; the stack holds MaxPrintDepth frames, and a call       *)
(* beyond that overflows it.                                               *)

MaxPrintedTables == 2   \* most VTables in a formatted hierarchy
MaxPrintDepth    == 4   \* frames of print_class_tree the stack holds

InitDisplay == PatternIdle /\ CtorIdle /\ VTableIdle /\ MemoryIdle /\ EngineIdle /\ HooksIdle

(* format!("{}", VTableAnalyzer::reconstruct_hierarchy(&vtables)) up to    *)
(* the header line; find_root_classes gives the classes still to print.    *)
FmtBegin ==
    /\ vscan = NoCall
    /\ \E n \in 0..MaxPrintedTables : \E vtables \in TableLists(n) :
            LET classes == reconstruct_hierarchy(vtables)
            IN  vscan' = [op      |-> "fmt",
                          pc      |-> "printing",
                          classes |-> classes,
                          roots   |-> find_root_classes(classes),
                          stack   |-> <<>>,
                          lines   |-> 1]
    /\ UNCHANGED <<patternVars, ctor, buffer, base_address, config, memoryVars, engine, hookVars>>

(* The frame of print_class_tree(f, class, depth) after its writeln. *)
PrintFrame(class) == [class |-> class, next |-> 1]

(* fmt's loop takes the next root class, in the HashMap's order, and calls *)
(* print_class_tree(f, root_class, 0).                                     *)
FmtNextRoot ==
    /\ vscan.op = "fmt" /\ vscan.pc = "printing"
    /\ vscan.stack = <<>>
    /\ \E root \in vscan.roots :
            vscan' = [vscan EXCEPT !.roots = @ \ {root},
                                   !.stack = <<PrintFrame(root)>>,
                                   !.lines = @ + 1]
    /\ UNCHANGED <<patternVars, ctor, buffer, base_address, config, memoryVars, engine, hookVars>>

(* print_class_tree's loop takes the next derived address and, if the      *)
(* hierarchy has the class, calls itself on it.                            *)
PrintDerived ==
    /\ vscan.op = "fmt" /\ vscan.pc = "printing"
    /\ vscan.stack # <<>>
    /\ LET top     == vscan.stack[Len(vscan.stack)]
           derived == vscan.classes[top.class].derived_classes
       IN  /\ top.next <= Len(derived)
           /\ LET derived_addr == derived[top.next]
                  advanced == [vscan.stack EXCEPT ![Len(vscan.stack)].next = @ + 1]
              IN  IF derived_addr \notin DOMAIN vscan.classes
                  THEN vscan' = [vscan EXCEPT !.stack = advanced]
                  ELSE IF Len(vscan.stack) >= MaxPrintDepth
                  THEN vscan' = [vscan EXCEPT !.pc = "stack_overflow"]
                  ELSE vscan' = [vscan EXCEPT
                                    !.stack = Append(advanced, PrintFrame(derived_addr)),
                                    !.lines = @ + 1]
    /\ UNCHANGED <<patternVars, ctor, buffer, base_address, config, memoryVars, engine, hookVars>>

(* print_class_tree returns Ok(()) once its loop is over. *)
PrintReturn ==
    /\ vscan.op = "fmt" /\ vscan.pc = "printing"
    /\ vscan.stack # <<>>
    /\ LET top == vscan.stack[Len(vscan.stack)]
       IN  top.next > Len(vscan.classes[top.class].derived_classes)
    /\ vscan' = [vscan EXCEPT !.stack = SubSeq(@, 1, Len(@) - 1)]
    /\ UNCHANGED <<patternVars, ctor, buffer, base_address, config, memoryVars, engine, hookVars>>

(* fmt returns Ok(()) after the last root class. *)
FmtReturn ==
    /\ vscan.op = "fmt" /\ vscan.pc = "printing"
    /\ vscan.stack = <<>>
    /\ vscan.roots = {}
    /\ vscan' = [vscan EXCEPT !.pc = "done"]
    /\ UNCHANGED <<patternVars, ctor, buffer, base_address, config, memoryVars, engine, hookVars>>

NextDisplay ==
    \/ FmtBegin
    \/ FmtNextRoot
    \/ PrintDerived
    \/ PrintReturn
    \/ FmtReturn

(* The formatting thread keeps running: every step that can be taken is    *)
(* taken.                                                                  *)
SpecDisplay == InitDisplay /\ [][NextDisplay]_vars /\ WF_vars(NextDisplay)

FmtReturned == vscan.op = "fmt" /\ vscan.pc = "done"

(* C25: formatting a ClassHierarchy built by reconstruct_hierarchy         *)
(* terminates for every list of VTables, also one in which two VTables at  *)
(* different addresses hold identical function lists: fmt returns.         *)
C25_DisplayTerminates == <>FmtReturned

----------------------------------------------------------------------------
(* MemoryScanner::enumerate_regions, one VirtualQueryEx call at a time.    *)

(* Win32 page protection and allocation state values. *)
PAGE_NOACCESS          == 1
PAGE_READONLY          == 2
PAGE_READWRITE         == 4
PAGE_WRITECOPY         == 8
PAGE_EXECUTE           == 16
PAGE_EXECUTE_READ      == 32
PAGE_EXECUTE_READWRITE == 64
PAGE_EXECUTE_WRITECOPY == 128
PAGE_GUARD             == 256
MEM_COMMIT             == 4096
MEM_RESERVE            == 8192
MEM_FREE               == 65536

(* impl From<u32> for MemoryProtection *)
MemoryProtectionFrom(protection) ==
    CASE protection = PAGE_NOACCESS          -> "NoAccess"
      [] protection = PAGE_READONLY          -> "ReadOnly"
      [] protection = PAGE_READWRITE         -> "ReadWrite"
      [] protection = PAGE_WRITECOPY         -> "WriteCopy"
      [] protection = PAGE_EXECUTE           -> "Execute"
      [] protection = PAGE_EXECUTE_READ      -> "ExecuteRead"
      [] protection = PAGE_EXECUTE_READWRITE -> "ExecuteReadWrite"
      [] protection = PAGE_EXECUTE_WRITECOPY -> "ExecuteWriteCopy"
      [] OTHER                               -> "NoAccess"

(* impl From<u32> for MemoryState *)
MemoryStateFrom(state) ==
    CASE state = MEM_COMMIT  -> "Commit"
      [] state = MEM_FREE    -> "Free"
      [] state = MEM_RESERVE -> "Reserve"
      [] OTHER               -> "Free"

(* The MemoryRegion enumerate_regions pushes for a MEMORY_BASIC_INFORMATION *)
MemoryRegion(mbi) ==
    [base_address |-> mbi.BaseAddress,
     size         |-> mbi.RegionSize,
     protection   |-> MemoryProtectionFrom(mbi.Protect),
     state        |-> MemoryStateFrom(mbi.State),
     region_type  |-> "Private"]

(* The MEMORY_BASIC_INFORMATION each iteration starts from. *)
ZeroedMbi ==
    [BaseAddress |-> WordZero, RegionSize |-> WordZero, State |-> 0, Protect |-> 0]

PageSize      == 4096
MaxQueryPages == 2   \* base addresses the query answers with: pages 0..MaxQueryPages
MaxRegions    == 2   \* regions collected before the query stops reporting committed ones

(* The last page of the address space. *)
TopPage == WordSub(WordMax, ToWord(PageSize - 1))

QueryBases == {ToWord(PageSize * k) : k \in 0..MaxQueryPages} \cup {TopPage}
QuerySizes ==
    {WordZero, ToWord(PageSize), ToWord(2 * PageSize)}
        \cup {WordSub(TopPage, base) : base \in QueryBases}

(* Whether the region [BaseAddress, BaseAddress + RegionSize) holds the    *)
(* address; a region may end at the very top of the address space.         *)
RegionHolds(mbi, address) ==
    LET end == WordAdd(mbi.BaseAddress, mbi.RegionSize)
    IN  /\ WordLeq(mbi.BaseAddress, address)
        /\ \/ WordLess(address, end.sum)
           \/ (end.overflow /\ end.sum = WordZero)

(* What VirtualQueryEx may fill in when it reports a region for the        *)
(* address: the region that holds the address, or a region of size zero    *)
(* at the address.                                                         *)
QueryAnswers(address) ==
    { mbi \in [BaseAddress : QueryBases,
               RegionSize  : QuerySizes,
               State       : {MEM_COMMIT, MEM_FREE},
               Protect     : {PAGE_READONLY}] :
        \/ (mbi.RegionSize # WordZero /\ RegionHolds(mbi, address))
        \/ (mbi.RegionSize = WordZero /\ mbi.BaseAddress = address) }

(* let mut regions = Vec::new(); let mut address = 0; *)
InitEnumerate ==
    /\ PatternIdle /\ CtorIdle /\ VTableIdle /\ EngineIdle /\ HooksIdle
    /\ scanner = NoCall
    /\ memory = <<>>
    /\ \E overflow_checks \in BOOLEAN :
         enumeration = [pc              |-> "query",
                        address         |-> WordZero,
                        regions         |-> <<>>,
                        mbi             |-> ZeroedMbi,
                        overflow_checks |-> overflow_checks]

(* VirtualQueryEx returns 0: break, and Ok(regions) *)
QueryFails ==
    /\ enumeration # NoCall
    /\ enumeration.pc = "query"
    /\ enumeration' = [enumeration EXCEPT !.pc = "done", !.mbi = ZeroedMbi]
    /\ UNCHANGED <<patternVars, ctor, vtableVars, scanner, memory, engine, hookVars>>

(* VirtualQueryEx reports a region *)
QueryReports ==
    /\ enumeration # NoCall
    /\ enumeration.pc = "query"
    /\ \E mbi \in QueryAnswers(enumeration.address) :
         /\ mbi.State = MEM_COMMIT => Len(enumeration.regions) < MaxRegions
         /\ enumeration' = [enumeration EXCEPT !.pc = "advance", !.mbi = mbi]
    /\ UNCHANGED <<patternVars, ctor, vtableVars, scanner, memory, engine, hookVars>>

(* the rest of the loop body: push a committed region, then               *)
(* address = (mbi.BaseAddress as usize) + mbi.RegionSize                  *)
Advance ==
    /\ enumeration # NoCall
    /\ enumeration.pc = "advance"
    /\ LET mbi     == enumeration.mbi
           regions == IF mbi.State = MEM_COMMIT
                      THEN Append(enumeration.regions, MemoryRegion(mbi))
                      ELSE enumeration.regions
           next    == WordAdd(mbi.BaseAddress, mbi.RegionSize)
       IN  enumeration' =
             IF next.overflow /\ enumeration.overflow_checks
             THEN [enumeration EXCEPT !.pc = "panicked", !.regions = regions]
             ELSE [enumeration EXCEPT !.pc = "query", !.regions = regions,
                                      !.address = next.sum]
    /\ UNCHANGED <<patternVars, ctor, vtableVars, scanner, memory, engine, hookVars>>

NextEnumerate == QueryFails \/ QueryReports \/ Advance

(* The loop runs on its own thread of control: it keeps taking steps. *)
SpecEnumerate == InitEnumerate /\ [][NextEnumerate]_vars /\ WF_vars(NextEnumerate)

(* C12: enumerate_regions terminates whatever the query primitive          *)
(* answers: eventually the loop is left (by its break, or by a panic).     *)
C12_EnumerateRegionsTerminates ==
    <>(enumeration.pc \in {"done", "panicked"})

----------------------------------------------------------------------------
(* MemoryScanner: construction, and the scans over a process's regions.    *)

(* Result values: Ok(value) and Err(error). *)
OkOf(value)  == [ok |-> TRUE, value |-> value]
ErrOf(error) == [ok |-> FALSE, error |-> error]

(* HANDLE values, as pointer-sized words.  GetCurrentProcess() returns the *)
(* pseudo handle (HANDLE)-1, the value of INVALID_HANDLE_VALUE.            *)
NullHandle           == WordZero
INVALID_HANDLE_VALUE == WordMax
GetCurrentProcess    == WordMax
OpenedHandle         == ToWord(420)

(* MemoryScanConfig::default() *)
DefaultMemoryScanConfig ==
    [scan_executable |-> TRUE,
     scan_readable   |-> TRUE,
     scan_writable   |-> FALSE,
     max_read_size   |-> 1024 * 1024,
     min_region_size |-> 4096,
     scan_alignment  |-> 1]

(* MemoryScanner::for_process(process_handle) *)
for_process(process_handle) ==
    IF process_handle = INVALID_HANDLE_VALUE \/ process_handle = NullHandle
    THEN ErrOf("ProcessAccessFailed")
    ELSE OkOf([process_handle |-> process_handle,
               vtable_config  |-> DefaultConfig,
               config         |-> DefaultMemoryScanConfig])

(* MemoryScanner::new() *)
MemoryScannerNew == for_process(GetCurrentProcess)

(* MemoryScanner::with_config(config) *)
with_config(self, cfg) == [self EXCEPT !.config = cfg]

Handles == {NullHandle, INVALID_HANDLE_VALUE, OpenedHandle}

(* MemoryScanner::new() *)
CallScannerNew ==
    /\ scanner = NoCall
    /\ scanner' = [op |-> "new", result |-> MemoryScannerNew]
    /\ UNCHANGED <<patternVars, ctor, vtableVars, enumeration, memory, engine, hookVars>>

(* MemoryScanner::for_process(process_handle), for a drawn handle *)
CallForProcess ==
    /\ scanner = NoCall
    /\ \E process_handle \in Handles :
         scanner' = [op             |-> "for_process",
                     process_handle |-> process_handle,
                     result         |-> for_process(process_handle)]
    /\ UNCHANGED <<patternVars, ctor, vtableVars, enumeration, memory, engine, hookVars>>

(* VirtualQueryEx(handle, address, &mut mbi) on a process whose regions    *)
(* are the given ones: the region that holds the address, or None when     *)
(* the call returns 0.                                                     *)
VirtualQueryEx(regions, address) ==
    LET holding == {k \in 1..Len(regions) : RegionHolds(regions[k], address)}
    IN  IF holding = {} THEN None
        ELSE LET k == CHOOSE k \in holding : TRUE
             IN  Some([BaseAddress |-> regions[k].BaseAddress,
                       RegionSize  |-> regions[k].RegionSize,
                       State       |-> regions[k].State,
                       Protect     |-> regions[k].Protect])

(* The loop of enumerate_regions, run to its break. *)
RECURSIVE EnumerateFrom(_, _, _)
EnumerateFrom(process, address, regions) ==
    LET result == VirtualQueryEx(process, address)
    IN  IF result = None THEN regions
        ELSE LET mbi == result[1]
             IN  EnumerateFrom(process,
                               WordAdd(mbi.BaseAddress, mbi.RegionSize).sum,
                               IF mbi.State = MEM_COMMIT
                               THEN Append(regions, MemoryRegion(mbi))
                               ELSE regions)

(* MemoryScanner::enumerate_regions() *)
enumerate_regions(process) == OkOf(EnumerateFrom(process, WordZero, <<>>))

(* MemoryScanner::read_memory(address, size): ReadProcessMemory succeeds   *)
(* and reads size bytes, or the call fails.                                *)
read_memory(process, address, size) ==
    LET readable == {k \in 1..Len(process) :
                        /\ process[k].BaseAddress = address
                        /\ process[k].RegionSize = size
                        /\ process[k].readable}
    IN  IF readable = {} THEN ErrOf("ReadFailed")
        ELSE OkOf(process[CHOOSE k \in readable : TRUE].bytes)

(* MemoryRegion::is_readable / is_executable / is_writable *)
is_readable(region) ==
    region.protection \in {"ReadOnly", "ReadWrite", "ExecuteRead", "ExecuteReadWrite",
                           "WriteCopy", "ExecuteWriteCopy"}
is_executable(region) ==
    region.protection \in {"Execute", "ExecuteRead", "ExecuteReadWrite", "ExecuteWriteCopy"}
is_writable(region) ==
    region.protection \in {"ReadWrite", "ExecuteReadWrite", "WriteCopy", "ExecuteWriteCopy"}

(* MemoryRegion::end_address() *)
end_address(region) == WordAdd(region.base_address, region.size).sum

(* A variant of should_scan_region without the min_region_size test. *)
should_scan_region_NoMinSize(self, region) ==
    LET has_permission ==
            \/ (self.config.scan_executable /\ is_executable(region))
            \/ (self.config.scan_readable /\ is_readable(region))
            \/ (self.config.scan_writable /\ is_writable(region))
    IN  has_permission /\ region.state = "Commit"

(* MemoryScanner::should_scan_region(region) *)
should_scan_region(self, region) ==
    IF WordLess(region.size, ToWord(self.config.min_region_size)) THEN FALSE
    ELSE LET has_permission ==
                 \/ (self.config.scan_executable /\ is_executable(region))
                 \/ (self.config.scan_readable /\ is_readable(region))
                 \/ (self.config.scan_writable /\ is_writable(region))
         IN  has_permission /\ region.state = "Commit"

(* The loop of find_byte_sequences from offset i on. *)
RECURSIVE ByteSequencesFrom(_, _, _, _)
ByteSequencesFrom(d, bytes, i, matches) ==
    IF i > Len(d) - Len(bytes) THEN matches
    ELSE ByteSequencesFrom(d, bytes, i + 1,
                           IF SubSeq(d, i + 1, i + Len(bytes)) = bytes
                           THEN Append(matches, i) ELSE matches)

(* MemoryScanner::find_byte_sequences(data, pattern) *)
find_byte_sequences(d, bytes) ==
    IF bytes = <<>> \/ Len(d) < Len(bytes) THEN <<>>
    ELSE ByteSequencesFrom(d, bytes, 0, <<>>)

(* A variant of the ScanResults below whose address is the offset in the   *)
(* region, without the region's base address.                              *)
PatternResults_OffsetAsAddress(region, d, matches) ==
    [k \in 1..Len(matches) |->
        [address     |-> ToWord(matches[k].offset),
         size        |-> matches[k].size,
         region      |-> region,
         result_type |-> "Pattern",
         data        |-> SubSeq(d, matches[k].offset + 1,
                                matches[k].offset + matches[k].size)]]

(* The ScanResults scan_pattern pushes for the matches in one region. *)
PatternResults(region, d, matches) ==
    [k \in 1..Len(matches) |->
        [address     |-> WordAdd(region.base_address, ToWord(matches[k].offset)).sum,
         size        |-> matches[k].size,
         region      |-> region,
         result_type |-> "Pattern",
         data        |-> SubSeq(d, matches[k].offset + 1,
                                matches[k].offset + matches[k].size)]]

(* The ScanResults scan_bytes pushes for the offsets found in one region. *)
BytesResults(region, bytes, offsets) ==
    [k \in 1..Len(offsets) |->
        [address     |-> WordAdd(region.base_address, ToWord(offsets[k])).sum,
         size        |-> Len(bytes),
         region      |-> region,
         result_type |-> "Bytes",
         data        |-> bytes]]

(* What one scan finds in the bytes read from one region. *)
RegionResults(self, scan, region, d) ==
    CASE scan.op = "scan_pattern" ->
             PatternResults(region, d, scan_pattern(scan.pattern, d))
      [] scan.op = "scan_bytes" ->
             BytesResults(region, scan.bytes, find_byte_sequences(d, scan.bytes))
      [] scan.op = "scan_vtables" ->
             scan_vtables(d, region.base_address, self.vtable_config, FALSE).value

(* The scan loop with `?` on the read: the first failed read ends the scan *)
(* with its error.                                                         *)
RECURSIVE RegionsLoop_AbortOnFailedRead(_, _, _, _, _, _)
RegionsLoop_AbortOnFailedRead(self, process, scan, regions, k, results) ==
    IF k > Len(regions) THEN results
    ELSE LET region == regions[k]
         IN  IF ~should_scan_region(self, region)
             THEN RegionsLoop_AbortOnFailedRead(self, process, scan, regions, k + 1, results)
             ELSE LET read == read_memory(process, region.base_address, region.size)
                  IN  IF read.ok
                      THEN RegionsLoop_AbortOnFailedRead(self, process, scan, regions, k + 1,
                               results \o RegionResults(self, scan, region, read.value))
                      ELSE <<>>

(* The loop the three scans share: over the regions that should be         *)
(* scanned, read the region and, if the read succeeded, collect what the   *)
(* scan finds in it.                                                       *)
RECURSIVE RegionsLoop(_, _, _, _, _, _)
RegionsLoop(self, process, scan, regions, k, results) ==
    IF k > Len(regions) THEN results
    ELSE LET region == regions[k]
         IN  IF ~should_scan_region(self, region)
             THEN RegionsLoop(self, process, scan, regions, k + 1, results)
             ELSE LET read == read_memory(process, region.base_address, region.size)
                  IN  IF read.ok
                      THEN RegionsLoop(self, process, scan, regions, k + 1,
                               results \o RegionResults(self, scan, region, read.value))
                      ELSE RegionsLoop(self, process, scan, regions, k + 1, results)

(* MemoryScanner::scan_pattern(pattern_str) *)
memory_scan_pattern(self, process, pattern_str) ==
    LET regions == enumerate_regions(process)
        compiled == PatternNew(pattern_str)
    IN  IF ~regions.ok THEN regions
        ELSE IF ~compiled.ok THEN ErrOf("PatternError")
        ELSE OkOf(RegionsLoop(self, process,
                              [op |-> "scan_pattern", pattern |-> compiled.bytes],
                              regions.value, 1, <<>>))

(* MemoryScanner::scan_vtables() *)
memory_scan_vtables(self, process) ==
    LET regions == enumerate_regions(process)
    IN  IF ~regions.ok THEN regions
        ELSE OkOf(RegionsLoop(self, process, [op |-> "scan_vtables"],
                              regions.value, 1, <<>>))

(* MemoryScanner::scan_bytes(bytes) *)
memory_scan_bytes(self, process, bytes) ==
    LET regions == enumerate_regions(process)
    IN  IF ~regions.ok THEN regions
        ELSE OkOf(RegionsLoop(self, process, [op |-> "scan_bytes", bytes |-> bytes],
                              regions.value, 1, <<>>))

(* The read_memory calls the loop of a scan makes: one, with the region's *)
(* base address and size, for each region that should be scanned.          *)
RECURSIVE ReadsLoop(_, _, _, _)
ReadsLoop(self, regions, k, reads) ==
    IF k > Len(regions) THEN reads
    ELSE LET region == regions[k]
         IN  IF ~should_scan_region(self, region)
             THEN ReadsLoop(self, regions, k + 1, reads)
             ELSE ReadsLoop(self, regions, k + 1,
                            Append(reads, [address |-> region.base_address,
                                           size    |-> region.size]))

(* The read_memory calls of one scan of the process. *)
MemoryReads(self, process) ==
    LET regions == enumerate_regions(process)
    IN  IF ~regions.ok THEN <<>> ELSE ReadsLoop(self, regions.value, 1, <<>>)

MaxProcessRegions == 2   \* most regions in a process's memory
MinRegionSize     == 2   \* the min_region_size the scanner is configured with

(* The bytes a region at the given base may hold: a byte, a few bytes of   *)
(* code, or a VTable of two entries that point at an int3 behind them.     *)
RegionContents(base) ==
    { <<72>>,
      <<72, 139, 72>>,
      Flatten(<<SlotAddress(ToWord(base), 2), SlotAddress(ToWord(base), 2), Int3Word>>) }

(* The regions a process may have at the given base. *)
RegionsAt(base) ==
    { [BaseAddress |-> ToWord(base),
       RegionSize  |-> ToWord(Len(bytes)),
       State       |-> state,
       Protect     |-> protect,
       bytes       |-> bytes,
       readable    |-> readable] :
        bytes \in RegionContents(base), state \in {MEM_COMMIT, MEM_FREE},
        protect \in {PAGE_READWRITE, PAGE_NOACCESS}, readable \in BOOLEAN }

(* The memories of n adjacent regions from the given base on. *)
RECURSIVE ProcessesFrom(_, _)
ProcessesFrom(base, n) ==
    IF n = 0 THEN {<<>>}
    ELSE UNION { { <<r>> \o rest : rest \in ProcessesFrom(base + Len(r.bytes), n - 1) } :
                    r \in RegionsAt(base) }

Processes(n) == ProcessesFrom(0, n)

(* The scanners drawn: for_process(handle).with_config(config) *)
MemoryScanConfigs ==
    { [DefaultMemoryScanConfig EXCEPT !.min_region_size = MinRegionSize,
                                      !.scan_readable = scan_readable] :
        scan_readable \in BOOLEAN }
MemoryScanners ==
    { with_config(for_process(OpenedHandle).value, cfg) : cfg \in MemoryScanConfigs }

ScanPatternStrs == { <<"4", "8">>, <<"4", "8", " ", "?">>, <<"4">> }
ScanByteSeqs    == { <<>>, <<72>>, <<139, 72>> }

InitMemory ==
    /\ PatternIdle /\ CtorIdle /\ VTableIdle /\ EngineIdle /\ HooksIdle
    /\ scanner = NoCall
    /\ enumeration = NoCall
    /\ \E n \in 0..MaxProcessRegions : memory \in Processes(n)

(* scanner.scan_pattern(pattern_str), for a drawn scanner and pattern *)
CallMemoryScanPattern ==
    /\ scanner = NoCall
    /\ \E self \in MemoryScanners, pattern_str \in ScanPatternStrs :
         scanner' = [op          |-> "scan_pattern",
                     self        |-> self,
                     pattern_str |-> pattern_str,
                     reads       |-> IF PatternNew(pattern_str).ok
                                     THEN MemoryReads(self, memory) ELSE <<>>,
                     result      |-> memory_scan_pattern(self, memory, pattern_str)]
    /\ UNCHANGED <<patternVars, ctor, vtableVars, enumeration, memory, engine, hookVars>>

(* scanner.scan_vtables(), for a drawn scanner *)
CallMemoryScanVTables ==
    /\ scanner = NoCall
    /\ \E self \in MemoryScanners :
         scanner' = [op     |-> "scan_vtables",
                     self   |-> self,
                     reads  |-> MemoryReads(self, memory),
                     result |-> memory_scan_vtables(self, memory)]
    /\ UNCHANGED <<patternVars, ctor, vtableVars, enumeration, memory, engine, hookVars>>

(* scanner.scan_bytes(bytes), for a drawn scanner and byte sequence *)
CallMemoryScanBytes ==
    /\ scanner = NoCall
    /\ \E self \in MemoryScanners, bytes \in ScanByteSeqs :
         scanner' = [op     |-> "scan_bytes",
                     self   |-> self,
                     bytes  |-> bytes,
                     reads  |-> MemoryReads(self, memory),
                     result |-> memory_scan_bytes(self, memory, bytes)]
    /\ UNCHANGED <<patternVars, ctor, vtableVars, enumeration, memory, engine, hookVars>>

NextMemory ==
    \/ CallScannerNew
    \/ CallForProcess
    \/ CallMemoryScanPattern
    \/ CallMemoryScanVTables
    \/ CallMemoryScanBytes

SpecMemory == InitMemory /\ [][NextMemory]_vars

(* C13: MemoryScanner::new() succeeds, and for_process fails (with         *)
(* ProcessAccessFailed) only for the null handle and the handle value      *)
(* that no process has.                                                    *)
C13_NewForCurrentProcessSucceeds ==
    /\ scanner.op = "new" => scanner.result.ok
    /\ scanner.op = "for_process" =>
         /\ scanner.result.ok <=> scanner.process_handle = OpenedHandle
         /\ ~scanner.result.ok => scanner.result.error = "ProcessAccessFailed"

(* Whether a region of the process is one the scanner is configured to    *)
(* scan: committed, of the minimum size, and with a protection that one of *)
(* the enabled scan_* flags asks for.                                      *)
ScanEligible(self, r) ==
    /\ r.State = MEM_COMMIT
    /\ Len(r.bytes) >= self.config.min_region_size
    /\ \/ (self.config.scan_executable
             /\ r.Protect \in {PAGE_EXECUTE, PAGE_EXECUTE_READ, PAGE_EXECUTE_READWRITE,
                               PAGE_EXECUTE_WRITECOPY})
       \/ (self.config.scan_readable
             /\ r.Protect \in {PAGE_READONLY, PAGE_READWRITE, PAGE_WRITECOPY,
                               PAGE_EXECUTE_READ, PAGE_EXECUTE_READWRITE,
                               PAGE_EXECUTE_WRITECOPY})
       \/ (self.config.scan_writable
             /\ r.Protect \in {PAGE_READWRITE, PAGE_WRITECOPY, PAGE_EXECUTE_READWRITE,
                               PAGE_EXECUTE_WRITECOPY})

(* The scan a call of the scanner asks for. *)
ScanOfCall ==
    CASE scanner.op = "scan_pattern" ->
             [op |-> "scan_pattern", pattern |-> PatternNew(scanner.pattern_str).bytes]
      [] scanner.op = "scan_bytes"   -> [op |-> "scan_bytes", bytes |-> scanner.bytes]
      [] scanner.op = "scan_vtables" -> [op |-> "scan_vtables"]

(* What the scan finds in the eligible regions from the k-th on whose read *)
(* succeeds, region after region.                                          *)
RECURSIVE ResultsOfReadableFrom(_)
ResultsOfReadableFrom(k) ==
    IF k > Len(memory) THEN <<>>
    ELSE (IF ScanEligible(scanner.self, memory[k]) /\ memory[k].readable
          THEN RegionResults(scanner.self, ScanOfCall,
                             MemoryRegion(memory[k]), memory[k].bytes)
          ELSE <<>>)
         \o ResultsOfReadableFrom(k + 1)

IsScanCall ==
    \/ scanner.op \in {"scan_vtables", "scan_bytes"}
    \/ (scanner.op = "scan_pattern" /\ PatternNew(scanner.pattern_str).ok)

(* C14: a scan returns Ok with the results of every scan-eligible region   *)
(* whose read succeeded, in region order, whichever reads fail.            *)
C14_ReadFailureSkipsRegion ==
    IsScanCall =>
        /\ scanner.result.ok
        /\ scanner.result.value = ResultsOfReadableFrom(1)

(* A scan over two eligible regions, the first of which cannot be read,    *)
(* that returns what it found in the second.                               *)
C14_Witness ==
    /\ IsScanCall
    /\ Len(memory) = 2
    /\ ScanEligible(scanner.self, memory[1]) /\ ~memory[1].readable
    /\ ScanEligible(scanner.self, memory[2]) /\ memory[2].readable
    /\ scanner.result.ok
    /\ scanner.result.value # <<>>

(* Whether the scan of the call read the region. *)
WasRead(r) ==
    \E k \in 1..Len(scanner.reads) :
        /\ scanner.reads[k].address = r.BaseAddress
        /\ scanner.reads[k].size = r.RegionSize

(* C24: scan_pattern, scan_vtables and scan_bytes read a region only if it *)
(* is committed, has at least min_region_size bytes and a permission class *)
(* (executable, readable, writable) whose scan_* flag is enabled; every    *)
(* read is that of a whole region of the process.                          *)
C24_OnlyEligibleRegionsAreRead ==
    IsScanCall =>
        /\ \A k \in 1..Len(memory) : WasRead(memory[k]) => ScanEligible(scanner.self, memory[k])
        /\ \A k \in 1..Len(scanner.reads) :
               \E j \in 1..Len(memory) :
                   /\ scanner.reads[k].address = memory[j].BaseAddress
                   /\ scanner.reads[k].size = memory[j].RegionSize

(* A scan that read one region and left alone a committed region with an   *)
(* enabled permission class that is smaller than min_region_size.          *)
C24_Witness ==
    /\ IsScanCall
    /\ \E j, k \in 1..Len(memory) :
           /\ WasRead(memory[j])
           /\ ~WasRead(memory[k])
           /\ memory[k].State = MEM_COMMIT
           /\ memory[k].Protect = PAGE_READWRITE
           /\ scanner.self.config.scan_readable
           /\ Len(memory[k].bytes) < scanner.self.config.min_region_size

----------------------------------------------------------------------------
(* MemoryScanner::comprehensive_scan, one scan at a time, beside a target  *)
(* process that frees regions of its address space meanwhile.              *)

MaxPatterns == 1   \* most pattern strings handed to comprehensive_scan

(* scanner.comprehensive_scan(patterns) up to its first scan *)
CallComprehensiveScan ==
    /\ scanner = NoCall
    /\ \E self \in MemoryScanners, patterns \in SeqsUpTo(ScanPatternStrs, MaxPatterns) :
         scanner' = [op              |-> "comprehensive_scan",
                     self            |-> self,
                     patterns        |-> patterns,
                     pc              |-> IF patterns = <<>> THEN "vtables" ELSE "patterns",
                     next            |-> 1,
                     pattern_matches |-> <<>>,
                     vtables         |-> <<>>,
                     memory_regions  |-> <<>>,
                     ok              |-> TRUE]
    /\ UNCHANGED <<patternVars, ctor, vtableVars, enumeration, memory, engine, hookVars>>

(* One iteration of the loop over the patterns: scan_pattern(pattern_str)? *)
(* and extend.                                                             *)
ScanNextPattern ==
    /\ scanner.op = "comprehensive_scan" /\ scanner.pc = "patterns"
    /\ LET matches == memory_scan_pattern(scanner.self, memory,
                                          scanner.patterns[scanner.next])
       IN  IF ~matches.ok
           THEN scanner' = [scanner EXCEPT !.pc = "done", !.ok = FALSE]
           ELSE scanner' = [scanner EXCEPT
                               !.pattern_matches = @ \o matches.value,
                               !.next = @ + 1,
                               !.pc = IF scanner.next + 1 > Len(scanner.patterns)
                                      THEN "vtables" ELSE "patterns"]
    /\ UNCHANGED <<patternVars, ctor, vtableVars, enumeration, memory, engine, hookVars>>

(* let vtables = self.scan_vtables()?; *)
ScanAllVTables ==
    /\ scanner.op = "comprehensive_scan" /\ scanner.pc = "vtables"
    /\ LET found_vtables == memory_scan_vtables(scanner.self, memory)
       IN  IF ~found_vtables.ok
           THEN scanner' = [scanner EXCEPT !.pc = "done", !.ok = FALSE]
           ELSE scanner' = [scanner EXCEPT !.vtables = found_vtables.value,
                                           !.pc = "regions"]
    /\ UNCHANGED <<patternVars, ctor, vtableVars, enumeration, memory, engine, hookVars>>

(* let regions = self.enumerate_regions()?; and the result is returned *)
EnumerateForResult ==
    /\ scanner.op = "comprehensive_scan" /\ scanner.pc = "regions"
    /\ LET listed == enumerate_regions(memory)
       IN  IF ~listed.ok
           THEN scanner' = [scanner EXCEPT !.pc = "done", !.ok = FALSE]
           ELSE scanner' = [scanner EXCEPT !.memory_regions = listed.value,
                                           !.pc = "done"]
    /\ UNCHANGED <<patternVars, ctor, vtableVars, enumeration, memory, engine, hookVars>>

(* The target process frees one of its committed regions (VirtualFree)     *)
(* while the scan is under way.                                            *)
TargetFreesRegion ==
    /\ scanner.op = "comprehensive_scan" /\ scanner.pc # "done"
    /\ \E k \in 1..Len(memory) :
           /\ memory[k].State = MEM_COMMIT
           /\ memory' = [memory EXCEPT ![k].State = MEM_FREE]
    /\ UNCHANGED <<patternVars, ctor, vtableVars, scanner, enumeration, engine, hookVars>>

NextComprehensive ==
    \/ CallComprehensiveScan
    \/ ScanNextPattern
    \/ ScanAllVTables
    \/ EnumerateForResult
    \/ TargetFreesRegion

SpecComprehensive == InitMemory /\ [][NextComprehensive]_vars

(* MemoryRegion::contains_address(address) *)
contains_address(region, address) ==
    WordLeq(region.base_address, address) /\ WordLess(address, end_address(region))

InReturnedRegions(address) ==
    \E k \in 1..Len(scanner.memory_regions) :
        contains_address(scanner.memory_regions[k], address)

(* C27: in every ComprehensiveScanResult each pattern match address and    *)
(* each VTable base address lies inside some region of the returned        *)
(* memory_regions, also when the target's address space changes between    *)
(* the region enumerations of comprehensive_scan.                          *)
C27_ResultsLieInReturnedRegions ==
    (scanner.op = "comprehensive_scan" /\ scanner.pc = "done" /\ scanner.ok) =>
        /\ \A k \in 1..Len(scanner.pattern_matches) :
               InReturnedRegions(scanner.pattern_matches[k].address)
        /\ \A k \in 1..Len(scanner.vtables) :
               InReturnedRegions(scanner.vtables[k].base_address)

----------------------------------------------------------------------------
(* MemoryScanner::scan_pattern with patterns long enough for the hybrid    *)
(* matcher to pick each of its three matchers.                             *)

MaxRegionBytes == 9   \* most bytes in a scanned region

(* Pattern strings: hex and wildcard tokens separated by single spaces. *)
RECURSIVE JoinTokens(_)
JoinTokens(tokens) ==
    IF Len(tokens) = 0 THEN <<>>
    ELSE IF Len(tokens) = 1 THEN Head(tokens)
    ELSE Head(tokens) \o <<" ">> \o JoinTokens(Tail(tokens))

Tok48 == <<"4", "8">>
Tok8B == <<"8", "B">>
TokAny == <<"?", "?">>

LongPatternStrs ==
    { JoinTokens(tokens) : tokens \in
        { <<Tok48, Tok8B>>,
          <<Tok48, TokAny, Tok48>>,
          <<Tok48, Tok8B, Tok48, Tok8B>>,
          <<TokAny, Tok48, TokAny, Tok48>>,
          <<Tok48, TokAny, TokAny, Tok8B, Tok48>>,
          <<Tok48, Tok8B, Tok48, Tok8B, Tok48, Tok8B, Tok48, Tok8B>>,
          <<Tok48, TokAny, Tok48, Tok8B, Tok48, TokAny, Tok48, Tok8B>> } }

(* A committed, readable read-write region holding the given bytes. *)
ScannedRegion(base, bytes) ==
    [BaseAddress |-> ToWord(base),
     RegionSize  |-> ToWord(Len(bytes)),
     State       |-> MEM_COMMIT,
     Protect     |-> PAGE_READWRITE,
     bytes       |-> bytes,
     readable    |-> TRUE]

(* The processes drawn: one scanned region at address 0, or one behind a   *)
(* region of two bytes.                                                    *)
ScannedProcesses ==
    UNION { { <<ScannedRegion(0, bytes)>>,
              <<ScannedRegion(0, <<139, 139>>), ScannedRegion(2, bytes)>> } :
            bytes \in SeqsUpTo(ScanBytes, MaxRegionBytes) \ SeqsUpTo(ScanBytes, 1) }

InitScanPattern ==
    /\ PatternIdle /\ CtorIdle /\ VTableIdle /\ EngineIdle /\ HooksIdle
    /\ scanner = NoCall
    /\ enumeration = NoCall
    /\ memory \in ScannedProcesses

(* scanner.scan_pattern(pattern_str), for a drawn long pattern *)
CallMemoryScanLongPattern ==
    /\ scanner = NoCall
    /\ \E self \in MemoryScanners, pattern_str \in LongPatternStrs :
         scanner' = [op          |-> "scan_pattern",
                     self        |-> self,
                     pattern_str |-> pattern_str,
                     reads       |-> IF PatternNew(pattern_str).ok
                                     THEN MemoryReads(self, memory) ELSE <<>>,
                     result      |-> memory_scan_pattern(self, memory, pattern_str)]
    /\ UNCHANGED <<patternVars, ctor, vtableVars, enumeration, memory, engine, hookVars>>

NextScanPattern == CallMemoryScanLongPattern

SpecScanPattern == InitScanPattern /\ [][NextScanPattern]_vars

(* The regions of the process a ScanResult may have come from: those whose *)
(* MemoryRegion the result carries.                                        *)
SourceRegions(result) ==
    {k \in 1..Len(memory) : MemoryRegion(memory[k]) = result.region}

(* C26: every ScanResult of scan_pattern has size equal to the pattern     *)
(* length, region.base_address <= address, address + size <=                *)
(* region.end_address(), and data equal to the size bytes read from the    *)
(* region at offset address - region.base_address, which lie inside the    *)
(* bytes read, whichever matcher produced the match.                       *)
C26_ScanResultLiesInsideItsRegion ==
    (scanner.op = "scan_pattern" /\ scanner.result.ok) =>
        \A n \in 1..Len(scanner.result.value) :
            LET result == scanner.result.value[n]
                offset == WordSub(result.address, result.region.base_address)
                end    == WordAdd(result.address, ToWord(result.size))
            IN  /\ result.size = PatternLen(PatternNew(scanner.pattern_str).bytes)
                /\ WordLeq(result.region.base_address, result.address)
                /\ ~end.overflow
                /\ WordLeq(end.sum, end_address(result.region))
                /\ SourceRegions(result) # {}
                /\ \A k \in SourceRegions(result) :
                       /\ WordIsSmall(offset)
                       /\ WordToNat(offset) + result.size <= Len(memory[k].bytes)
                       /\ \A b \in 1..result.size :
                              /\ b <= Len(result.data)
                              /\ result.data[b] = memory[k].bytes[WordToNat(offset) + b]
                       /\ Len(result.data) = result.size

(* A scan with a pattern with a wildcard, for which the hybrid matcher     *)
(* picks KMP, has returned a match past the start of a region that does    *)
(* not start at address 0.                                                 *)
C26_Witness ==
    /\ scanner.op = "scan_pattern" /\ scanner.result.ok
    /\ select_matcher(PatternNew(scanner.pattern_str).bytes) = "Kmp"
    /\ WildcardCount(PatternNew(scanner.pattern_str).bytes) >= 1
    /\ \E n \in 1..Len(scanner.result.value) :
           /\ scanner.result.value[n].region.base_address # WordZero
           /\ scanner.result.value[n].address # scanner.result.value[n].region.base_address

----------------------------------------------------------------------------
(* AnalysisEngine: string extraction and function analysis.                *)

(* u8::is_ascii_graphic: the bytes b'!' ..= b'~' *)
is_ascii_graphic(byte) == 33 <= byte /\ byte <= 126

(* The loop of extract_strings from index i on; it returns strings. *)
RECURSIVE ExtractFrom(_, _, _, _, _, _)
ExtractFrom(d, base_addr, i, strings, current_string, start_offset) ==
    IF i >= Len(d) THEN strings
    ELSE LET byte == d[i + 1]
         IN  IF is_ascii_graphic(byte) \/ byte = 32
             THEN ExtractFrom(d, base_addr, i + 1, strings,
                              Append(current_string, byte),
                              IF current_string = <<>> THEN i ELSE start_offset)
             ELSE ExtractFrom(d, base_addr, i + 1,
                              IF Len(current_string) >= 4
                              THEN Append(strings,
                                     [address    |-> WordAdd(base_addr, ToWord(start_offset)).sum,
                                      value      |-> current_string,
                                      encoding   |-> "Ascii",
                                      references |-> <<>>])
                              ELSE strings,
                              <<>>, start_offset)

(* AnalysisEngine::extract_strings(data, base_address) *)
extract_strings(d, base_addr) == ExtractFrom(d, base_addr, 0, <<>>, <<>>, 0)

(* AnalysisEngine::detect_calling_convention(data) *)
detect_calling_convention(d) ==
    IF Len(d) >= 4
    THEN CASE SubSeq(d, 1, 4) = <<85, 72, 137, 229>> -> "Cdecl"      \* 55 48 89 E5
           [] SubSeq(d, 1, 4) = <<72, 137, 76, 36>>  -> "Fastcall"   \* 48 89 4C 24
           [] OTHER                                  -> "Unknown"
    ELSE "Unknown"

(* Whether the 3-byte window at index k is one estimate_function_size     *)
(* matches: [0x48, 0x83, 0xC4] | [0x5D, 0xC3, _] | [0xC3, _, _]            *)
IsEpilogueAt(d, k) ==
    \/ (d[k + 1] = 72 /\ d[k + 2] = 131 /\ d[k + 3] = 196)
    \/ (d[k + 1] = 93 /\ d[k + 2] = 195)
    \/ d[k + 1] = 195

(* AnalysisEngine::estimate_function_size(data): the first window that     *)
(* matches, counted from 1.                                                *)
estimate_function_size(d) ==
    LET matching == {k \in 0..(Len(d) - 3) : IsEpilogueAt(d, k)}
    IN  IF matching = {} THEN None
        ELSE Some((CHOOSE k \in matching : \A other \in matching : k <= other) + 1)

(* AnalysisEngine::analyze_function_parameters(data) *)
analyze_function_parameters(d) ==
    IF Len(d) >= 8 /\ SubSeq(d, 1, 4) = <<72, 137, 76, 36>>
    THEN <<[index |-> 0, data_type |-> "Unknown", location |-> "RCX"]>>
    ELSE <<>>

(* Confidence scores are held in tenths: 0.5 is 5, += 0.2 adds 2 and       *)
(* += 0.1 adds 1.                                                          *)
BaseConfidence   == 5
SizeConfidence   == 2
ParamsConfidence == 1
VTableConfidence == 1

(* The bytes analyze_function asks read_memory for. *)
FunctionWindow == 512

(* The bytes of the process at each address an analysis reads from: what   *)
(* is known of them (the rest of the window is zero bytes), and whether a  *)
(* read of the window succeeds.                                            *)
ReadWindow(code, address, size) ==
    IF address \in DOMAIN code /\ code[address].readable
    THEN OkOf([k \in 1..size |->
                 IF k <= Len(code[address].bytes) THEN code[address].bytes[k] ELSE 0])
    ELSE ErrOf("MemoryError")

(* analyze_function with the size increment outside its `if let` *)
analyze_function_AlwaysAddsSize(code, address) ==
    LET read == ReadWindow(code, address, FunctionWindow)
    IN  IF ~read.ok THEN read
        ELSE LET d          == read.value
                 size       == estimate_function_size(d)
                 parameters == analyze_function_parameters(d)
             IN  OkOf([address            |-> address,
                       size               |-> size,
                       calling_convention |-> detect_calling_convention(d),
                       parameters         |-> parameters,
                       confidence         |->
                           BaseConfidence + SizeConfidence
                             + (IF parameters # <<>> THEN ParamsConfidence ELSE 0)])

(* AnalysisEngine::analyze_function(address) *)
analyze_function(code, address) ==
    LET read == ReadWindow(code, address, FunctionWindow)
    IN  IF ~read.ok THEN read
        ELSE LET d          == read.value
                 size       == estimate_function_size(d)
                 parameters == analyze_function_parameters(d)
             IN  OkOf([address            |-> address,
                       size               |-> size,
                       calling_convention |-> detect_calling_convention(d),
                       parameters         |-> parameters,
                       confidence         |->
                           BaseConfidence
                             + (IF size # None THEN SizeConfidence ELSE 0)
                             + (IF parameters # <<>> THEN ParamsConfidence ELSE 0)])

(* The first loop of analyze_functions: over the pattern matches. *)
RECURSIVE PatternFunctions(_, _, _, _)
PatternFunctions(code, pattern_matches, k, functions) ==
    IF k > Len(pattern_matches) THEN functions
    ELSE LET function == analyze_function(code, pattern_matches[k].address)
         IN  PatternFunctions(code, pattern_matches, k + 1,
                              IF function.ok THEN Append(functions, function.value)
                              ELSE functions)

(* The inner loop of the second loop: over one VTable's functions. *)
RECURSIVE VirtualFunctions(_, _, _, _)
VirtualFunctions(code, vtable, k, functions) ==
    IF k > Len(vtable.functions) THEN functions
    ELSE LET function == analyze_function(code, vtable.functions[k].address)
         IN  VirtualFunctions(code, vtable, k + 1,
                 IF function.ok
                 THEN Append(functions,
                             [function.value EXCEPT
                                 !.calling_convention = "Thiscall",
                                 !.confidence = function.value.confidence + VTableConfidence])
                 ELSE functions)

(* The second loop of analyze_functions: over the VTables. *)
RECURSIVE VTableFunctions(_, _, _, _)
VTableFunctions(code, vtables, k, functions) ==
    IF k > Len(vtables) THEN functions
    ELSE VTableFunctions(code, vtables, k + 1,
                         VirtualFunctions(code, vtables[k], 1, functions))

(* AnalysisEngine::analyze_functions(scan_result) *)
analyze_functions(code, scan_result) ==
    OkOf(VTableFunctions(code, scan_result.vtables, 1,
                         PatternFunctions(code, scan_result.pattern_matches, 1, <<>>)))

MaxStringData == 6   \* longest buffer handed to extract_strings

(* NUL, space, 'A' and DEL: one graphic byte, the space, and two bytes     *)
(* that are neither.                                                       *)
StringBytes == {0, 32, 65, 127}

InitEngine == PatternIdle /\ CtorIdle /\ VTableIdle /\ MemoryIdle /\ engine = NoCall /\ HooksIdle

(* engine.extract_strings(&data, base_address), for a drawn buffer *)
CallExtractStrings ==
    /\ engine = NoCall
    /\ \E d \in SeqsUpTo(StringBytes, MaxStringData), base_addr \in BaseAddresses :
         engine' = [op           |-> "extract_strings",
                    data         |-> d,
                    base_address |-> base_addr,
                    strings      |-> extract_strings(d, base_addr)]
    /\ UNCHANGED <<patternVars, ctor, vtableVars, memoryVars, hookVars>>

MaxPatternMatches    == 1   \* most pattern matches in a scan result
MaxVirtualFunctions  == 2   \* most functions in a VTable of a scan result

(* What is known of the bytes at an address: an optional prologue          *)
(* (push rbp; mov rbp, rsp / mov [rsp+8], rcx / nop), then an optional ret. *)
CodeWindows ==
    { prologue \o tail :
        prologue \in {<<>>, <<85, 72, 137, 229>>, <<72, 137, 76, 36>>, <<144>>},
        tail \in {<<>>, <<195>>} }

CodeAddresses == {FnA, FnB}

Codes ==
    [CodeAddresses -> {[readable |-> FALSE, bytes |-> <<>>]}
                        \cup {[readable |-> TRUE, bytes |-> w] : w \in CodeWindows}]

(* The ComprehensiveScanResults drawn: pattern matches at, and VTables     *)
(* with functions at, the addresses the analysis reads from.               *)
ScanResults ==
    [pattern_matches : SeqsUpTo({[address |-> a] : a \in CodeAddresses}, MaxPatternMatches),
     vtables         : {<<>>} \cup
                       { <<BuildVTable(VTableNew(ToWord(4096)), addresses, 0)>> :
                            addresses \in SeqsUpTo(CodeAddresses, MaxVirtualFunctions) }]

(* engine.analyze_function(address), for drawn memory and address *)
CallAnalyzeFunction ==
    /\ engine = NoCall
    /\ \E code \in Codes, addr \in CodeAddresses \cup {FnX} :
         engine' = [op      |-> "analyze_function",
                    code    |-> code,
                    address |-> addr,
                    result  |-> analyze_function(code, addr)]
    /\ UNCHANGED <<patternVars, ctor, vtableVars, memoryVars, hookVars>>

(* engine.analyze_functions(&scan_result), for drawn memory and scan result *)
CallAnalyzeFunctions ==
    /\ engine = NoCall
    /\ \E code \in Codes, scan_result \in ScanResults :
         engine' = [op          |-> "analyze_functions",
                    code        |-> code,
                    scan_result |-> scan_result,
                    result      |-> analyze_functions(code, scan_result)]
    /\ UNCHANGED <<patternVars, ctor, vtableVars, memoryVars, hookVars>>

NextEngine == CallExtractStrings \/ CallAnalyzeFunction \/ CallAnalyzeFunctions

SpecEngine == InitEngine /\ [][NextEngine]_vars

(* Whether a byte is printable ASCII: graphic or the space. *)
IsPrintable(byte) == byte \in 32..126

(* The maximal runs of printable bytes of a buffer, as <<start, length>>   *)
(* with a 0-based start.                                                   *)
MaximalRuns(d) ==
    { run \in (0..Len(d)) \X (1..Len(d)) :
        /\ run[1] + run[2] <= Len(d)
        /\ \A k \in (run[1] + 1)..(run[1] + run[2]) : IsPrintable(d[k])
        /\ (run[1] > 0 => ~IsPrintable(d[run[1]]))
        /\ (run[1] + run[2] < Len(d) => ~IsPrintable(d[run[1] + run[2] + 1])) }

(* C15: extract_strings emits exactly one Ascii StringReference, at        *)
(* region_base + run_start_offset, for every maximal run of printable      *)
(* bytes of length >= 4, a run that ends with the buffer included, and     *)
(* nothing else.                                                           *)
C15_OneStringPerPrintableRun ==
    engine.op = "extract_strings" =>
        LET strings == engine.strings
            runs    == {run \in MaximalRuns(engine.data) : run[2] >= 4}
        IN  /\ Len(strings) = Cardinality(runs)
            /\ \A run \in runs :
                 \E k \in 1..Len(strings) :
                    /\ strings[k].address
                         = WordAdd(engine.base_address, ToWord(run[1])).sum
                    /\ strings[k].value = SubSeq(engine.data, run[1] + 1, run[1] + run[2])
                    /\ strings[k].encoding = "Ascii"

(* The addresses of the VTable entries of a scan result whose window can  *)
(* be read, in the order analyze_functions visits them.                    *)
RECURSIVE ReadableEntries(_, _, _, _)
ReadableEntries(code, vtables, v, k) ==
    IF v > Len(vtables) THEN <<>>
    ELSE IF k > Len(vtables[v].functions) THEN ReadableEntries(code, vtables, v + 1, 1)
    ELSE LET addr == vtables[v].functions[k].address
         IN  (IF addr \in DOMAIN code /\ code[addr].readable THEN <<addr>> ELSE <<>>)
                \o ReadableEntries(code, vtables, v, k + 1)

(* C17: in tenths, analyze_function scores 5, plus 2 iff it found a size,  *)
(* plus 1 iff it found parameters; a function analyze_functions derives    *)
(* from a VTable entry carries analyze_function's score for its address    *)
(* plus 1 and is Thiscall; every score lies in 5..9.                       *)
C17_ConfidenceIsSumOfIncrements ==
    /\ (engine.op = "analyze_function" /\ engine.result.ok) =>
         LET f == engine.result.value
         IN  /\ f.confidence = 5 + (IF f.size # None THEN 2 ELSE 0)
                                 + (IF f.parameters # <<>> THEN 1 ELSE 0)
             /\ f.confidence \in 5..8
    /\ engine.op = "analyze_functions" =>
         LET functions == engine.result.value
             entries   == ReadableEntries(engine.code, engine.scan_result.vtables, 1, 1)
             first     == Len(functions) - Len(entries)
         IN  /\ engine.result.ok
             /\ first >= 0
             /\ \A k \in 1..Len(functions) : functions[k].confidence \in 5..9
             /\ \A k \in 1..Len(entries) :
                  LET f    == functions[first + k]
                      base == analyze_function(engine.code, entries[k]).value
                  IN  /\ f.address = entries[k]
                      /\ f.calling_convention = "Thiscall"
                      /\ f.confidence = base.confidence + 1
                      /\ f.confidence = 6 + (IF f.size # None THEN 2 ELSE 0)
                                          + (IF f.parameters # <<>> THEN 1 ELSE 0)

(* analyze_functions has derived, from a VTable entry whose bytes start    *)
(* with the fastcall prologue and hold a ret, a Thiscall function of       *)
(* score 9.                                                                *)
C17_Witness ==
    /\ engine.op = "analyze_functions"
    /\ \E k \in 1..Len(engine.result.value) :
         /\ engine.result.value[k].confidence = 9
         /\ engine.result.value[k].calling_convention = "Thiscall"
         /\ engine.code[engine.result.value[k].address].bytes = <<72, 137, 76, 36, 195>>

----------------------------------------------------------------------------
(* RegionFilter: a list of criteria, each a predicate on a MemoryRegion.   *)

(* RegionFilter::new() *)
RegionFilterNew == <<>>

(* RegionFilter::executable / readable / writable / min_size /             *)
(* address_range: push the criterion's closure                             *)
executable(criteria) == Append(criteria, [kind |-> "executable"])
readable(criteria)   == Append(criteria, [kind |-> "readable"])
writable(criteria)   == Append(criteria, [kind |-> "writable"])
min_size(criteria, size) == Append(criteria, [kind |-> "min_size", size |-> size])
address_range(criteria, start, end) ==
    Append(criteria, [kind |-> "address_range", start |-> start, end |-> end])

(* The call of one criterion's closure on a region. *)
Criterion(criterion, region) ==
    CASE criterion.kind = "executable" -> is_executable(region)
      [] criterion.kind = "readable"   -> is_readable(region)
      [] criterion.kind = "writable"   -> is_writable(region)
      [] criterion.kind = "min_size"   -> WordLeq(criterion.size, region.size)
      [] criterion.kind = "address_range" ->
             /\ WordLeq(criterion.start, region.base_address)
             /\ WordLeq(end_address(region), criterion.end)

(* Iterator::all over the criteria from the k-th on. *)
RECURSIVE AllFrom(_, _, _)
AllFrom(criteria, region, k) ==
    IF k > Len(criteria) THEN TRUE
    ELSE IF ~Criterion(criteria[k], region) THEN FALSE
    ELSE AllFrom(criteria, region, k + 1)

(* Iterator::any over the criteria from the k-th on. *)
RECURSIVE AnyFrom(_, _, _)
AnyFrom(criteria, region, k) ==
    IF k > Len(criteria) THEN FALSE
    ELSE IF Criterion(criteria[k], region) THEN TRUE
    ELSE AnyFrom(criteria, region, k + 1)

(* matches with any in place of all *)
filter_matches_Any(criteria, region) == AnyFrom(criteria, region, 1)

(* RegionFilter::matches(region) *)
filter_matches(criteria, region) == AllFrom(criteria, region, 1)

(* The loop of filter_regions from the k-th region on. *)
RECURSIVE FilterFrom(_, _, _)
FilterFrom(criteria, regions, k) ==
    IF k > Len(regions) THEN <<>>
    ELSE (IF filter_matches(criteria, regions[k]) THEN <<regions[k]>> ELSE <<>>)
            \o FilterFrom(criteria, regions, k + 1)

(* RegionFilter::filter_regions(regions) *)
filter_regions(criteria, regions) == FilterFrom(criteria, regions, 1)

MaxCriteria      == 2   \* most criteria added to a filter
MaxFilterRegions == 2   \* most regions handed to filter_regions

(* The criteria drawn, each as the builder call pushes it. *)
Criteria ==
    { executable(RegionFilterNew)[1], readable(RegionFilterNew)[1],
      writable(RegionFilterNew)[1],
      min_size(RegionFilterNew, ToWord(PageSize))[1],
      address_range(RegionFilterNew, ToWord(PageSize), ToWord(2 * PageSize))[1] }

RegionFilters == SeqsUpTo(Criteria, MaxCriteria)

(* The regions drawn: a page at 0x1000 and half a page at 0x2000, under    *)
(* four protections.                                                       *)
FilterRegions ==
    { [base_address |-> ToWord(geometry[1]),
       size         |-> ToWord(geometry[2]),
       protection   |-> protection,
       state        |-> "Commit",
       region_type  |-> "Private"] :
        geometry \in {<<PageSize, PageSize>>, <<2 * PageSize, PageSize \div 2>>},
        protection \in {"NoAccess", "ReadOnly", "ExecuteRead", "ReadWrite"} }

InitFilter == PatternIdle /\ CtorIdle /\ VTableIdle /\ MemoryIdle /\ EngineIdle /\ HooksIdle

(* filter.matches(&region), for a drawn filter and region *)
CallFilterMatches ==
    /\ scanner = NoCall
    /\ \E criteria \in RegionFilters, region \in FilterRegions :
         scanner' = [op       |-> "matches",
                     criteria |-> criteria,
                     region   |-> region,
                     result   |-> filter_matches(criteria, region)]
    /\ UNCHANGED <<patternVars, ctor, vtableVars, enumeration, memory, engine, hookVars>>

(* filter.filter_regions(&regions), for a drawn filter and region list *)
CallFilterRegions ==
    /\ scanner = NoCall
    /\ \E criteria \in RegionFilters, regions \in SeqsUpTo(FilterRegions, MaxFilterRegions) :
         scanner' = [op       |-> "filter_regions",
                     criteria |-> criteria,
                     regions  |-> regions,
                     result   |-> filter_regions(criteria, regions)]
    /\ UNCHANGED <<patternVars, ctor, vtableVars, enumeration, memory, engine, hookVars>>

NextFilter == CallFilterMatches \/ CallFilterRegions

SpecFilter == InitFilter /\ [][NextFilter]_vars

(* Whether a region satisfies a criterion, by the access its protection    *)
(* gives and by its extent.                                                *)
Satisfies(region, criterion) ==
    CASE criterion.kind = "executable" ->
             region.protection \in {"Execute", "ExecuteRead", "ExecuteReadWrite",
                                    "ExecuteWriteCopy"}
      [] criterion.kind = "readable" ->
             region.protection \notin {"NoAccess", "Execute"}
      [] criterion.kind = "writable" ->
             region.protection \in {"ReadWrite", "WriteCopy", "ExecuteReadWrite",
                                    "ExecuteWriteCopy"}
      [] criterion.kind = "min_size" ->
             WordToNat(region.size) >= WordToNat(criterion.size)
      [] criterion.kind = "address_range" ->
             /\ WordToNat(region.base_address) >= WordToNat(criterion.start)
             /\ WordToNat(region.base_address) + WordToNat(region.size)
                    <= WordToNat(criterion.end)

SatisfiesAll(region, criteria) ==
    \A k \in 1..Len(criteria) : Satisfies(region, criteria[k])

(* The regions of a list that satisfy every criterion, in list order. *)
RECURSIVE Kept(_, _)
Kept(regions, criteria) ==
    IF regions = <<>> THEN <<>>
    ELSE (IF SatisfiesAll(Head(regions), criteria) THEN <<Head(regions)>> ELSE <<>>)
            \o Kept(Tail(regions), criteria)

(* C16: matches is the AND of the criteria added (so a filter with none    *)
(* matches every region), and filter_regions keeps exactly the matching    *)
(* regions, in input order.                                                *)
C16_FilterIsConjunction ==
    /\ scanner.op = "matches" =>
         /\ scanner.result <=> SatisfiesAll(scanner.region, scanner.criteria)
         /\ scanner.criteria = <<>> => scanner.result
    /\ scanner.op = "filter_regions" =>
         scanner.result = Kept(scanner.regions, scanner.criteria)

(* executable().readable() applied to a list of a read-only and an         *)
(* execute-read region keeps the second only: the first fails one          *)
(* criterion of two.                                                       *)
C16_Witness ==
    /\ scanner.op = "filter_regions"
    /\ scanner.criteria = readable(executable(RegionFilterNew))
    /\ Len(scanner.regions) = 2
    /\ scanner.regions[1].protection = "ReadOnly"
    /\ scanner.regions[2].protection = "ExecuteRead"
    /\ scanner.result = <<scanner.regions[2]>>

----------------------------------------------------------------------------
(* PatternMatcher::find_first, for each matcher.                           *)

(* The loop of NaiveMatcher::find_first from offset i on. *)
RECURSIVE NaiveFirstLoop(_, _, _)
NaiveFirstLoop(p, d, i) ==
    IF i > Len(d) - PatternLen(p) THEN None
    ELSE IF MatchesAt(p, d, i) THEN Some(PatternMatch(i, PatternLen(p)))
    ELSE NaiveFirstLoop(p, d, i + 1)

(* NaiveMatcher::find_first(pattern, data) *)
NaiveFindFirst(p, d) ==
    IF PatternLen(p) = 0 \/ Len(d) < PatternLen(p) THEN None
    ELSE NaiveFirstLoop(p, d, 0)

(* How far BoyerMooreMatcher::find_first moves the window that starts at   *)
(* i and does not match.                                                   *)
BMFirstShift(p, d, table, i) ==
    IF i + PatternLen(p) < Len(d)
    THEN LET bad_char == d[i + PatternLen(p)]
         IN  IF bad_char \in DOMAIN table
             THEN Max(1, PatternLen(p) - table[bad_char] - 1)
             ELSE PatternLen(p)
    ELSE 1

(* The loop of BoyerMooreMatcher::find_first from offset i on. *)
RECURSIVE BMFirstLoop(_, _, _, _)
BMFirstLoop(p, d, table, i) ==
    IF i > Len(d) - PatternLen(p) THEN None
    ELSE IF MatchesAt(p, d, i) THEN Some(PatternMatch(i, PatternLen(p)))
    ELSE BMFirstLoop(p, d, table, i + BMFirstShift(p, d, table, i))

(* BoyerMooreMatcher::find_first(pattern, data) *)
BoyerMooreFindFirst(p, d) ==
    IF PatternLen(p) = 0 \/ Len(d) < PatternLen(p) THEN None
    ELSE BMFirstLoop(p, d, build_bad_char_table(p), 0)

(* The loop of KmpMatcher::find_first from data index i on. *)
RECURSIVE KmpFirstLoop(_, _, _, _, _)
KmpFirstLoop(p, d, failure, i, j) ==
    IF i >= Len(d) THEN None
    ELSE LET j1 == KmpFallback(p, d, failure, i, j)
             j2 == IF pattern_matches_data(p, d, j1, i) THEN j1 + 1 ELSE j1
         IN  IF j2 = PatternLen(p)
             THEN Some(PatternMatch(i - PatternLen(p) + 1, PatternLen(p)))
             ELSE KmpFirstLoop(p, d, failure, i + 1, j2)

(* KmpMatcher::find_first(pattern, data) *)
KmpFindFirst(p, d) ==
    IF PatternLen(p) = 0 \/ Len(d) < PatternLen(p) THEN None
    ELSE KmpFirstLoop(p, d, build_failure_function(p), 0, 0)

(* matcher.find_first(pattern, data), by the matcher's name *)
FindFirst(matcher, p, d) ==
    CASE matcher = "Naive"      -> NaiveFindFirst(p, d)
      [] matcher = "BoyerMoore" -> BoyerMooreFindFirst(p, d)
      [] matcher = "Kmp"        -> KmpFindFirst(p, d)

(* HybridMatcher::find_first(pattern, data) *)
HybridFindFirst(p, d) == FindFirst(select_matcher(p), p, d)

(* matcher.find_first(&pattern, &data), for each matcher *)
CallFindFirst ==
    /\ found = NoCall
    /\ \E m \in Matchers :
            found' = [op      |-> "find_first",
                      matcher |-> m,
                      first   |-> IF m = "Hybrid" THEN HybridFindFirst(pattern, data)
                                  ELSE FindFirst(m, pattern, data)]
    /\ UNCHANGED <<pattern, data, ctor, vtableVars, memoryVars, engine, hookVars>>

NextFindFirst == CallFindFirst

SpecFindFirst == InitScan /\ [][NextFindFirst]_vars

(* C18: find_first of every matcher, for a non-empty pattern, returns the  *)
(* match at the least offset at which the pattern matches, and None        *)
(* exactly when it matches at no offset.                                   *)
C18_FindFirstIsLeastMatch ==
    (found.op = "find_first" /\ PatternLen(pattern) >= 1) =>
        LET offsets == MatchOffsets(pattern, data)
        IN  IF offsets = {} THEN found.first = None
            ELSE found.first =
                   Some(PatternMatch(CHOOSE i \in offsets : \A k \in offsets : i <= k,
                                     PatternLen(pattern)))

----------------------------------------------------------------------------
(* hooks::HookManager: the registry of hook modules and the guards of the  *)
(* hooks they installed. A module is its name and whether init has run     *)
(* since its last shutdown; a guard names the position of the module whose *)
(* init installed the hook, and the hook is live until the guard drops.    *)

MaxModules == 2   \* most modules registered with one manager
MaxGuards  == 8   \* most hook guards a manager holds before another start

otherVars == <<patternVars, ctor, vtableVars, memoryVars, engine>>

ExampleModule == [name |-> "ExampleModule", initialised |-> FALSE]

HookModules == {ExampleModule, [name |-> "OtherModule", initialised |-> FALSE]}

(* HookManager::new(config) *)
HookManager_new == [modules |-> <<>>, guards |-> <<>>, started |-> FALSE]

(* HookManager::register(module) *)
register(mgr, module) == [mgr EXCEPT !.modules = Append(@, module)]

(* The loop of HookManager::start from module k on; the modules whose      *)
(* position is in failing answer init with an Err on this call, the rest   *)
(* install one hook each.                                                  *)
RECURSIVE StartLoop(_, _, _)
StartLoop(mgr, k, failing) ==
    IF k > Len(mgr.modules)
    THEN [mgr |-> [mgr EXCEPT !.started = TRUE], result |-> OkOf(<<>>)]
    ELSE IF k \in failing
    THEN [mgr |-> mgr, result |-> ErrOf("HookInstall")]
    ELSE StartLoop([mgr EXCEPT !.modules[k].initialised = TRUE,
                               !.guards = Append(@, [module |-> k])],
                   k + 1, failing)

(* HookManager::start() *)
start(mgr, failing) ==
    IF mgr.started
    THEN [mgr |-> mgr, result |-> OkOf(<<>>)]
    ELSE StartLoop(mgr, 1, failing)

(* HookManager::stop() *)
stop(mgr) ==
    IF ~mgr.started
    THEN mgr
    ELSE [modules |-> [j \in 1..Len(mgr.modules) |->
                         [mgr.modules[j] EXCEPT !.initialised = FALSE]],
          guards  |-> <<>>,
          started |-> FALSE]

(* hooks::init_global_manager(config): OnceLock::set keeps the first value *)
init_global_manager(global) ==
    IF global = None THEN Some(HookManager_new) ELSE global

InitHookManager ==
    /\ PatternIdle /\ CtorIdle /\ VTableIdle /\ MemoryIdle /\ EngineIdle
    /\ GLOBAL_ANY = Some(HookManager_new)
    /\ RUNNING = FALSE
    /\ SHUTDOWN = FALSE
    /\ watchers = <<>>
    /\ caller = CallerIdle

(* mgr.register(module), for a drawn module *)
CallRegister ==
    /\ Len(GLOBAL_ANY[1].modules) < MaxModules
    /\ \E module \in HookModules :
         /\ GLOBAL_ANY' = Some(register(GLOBAL_ANY[1], module))
         /\ caller' = [pc |-> "idle", op |-> "register", returned |-> <<>>]
    /\ UNCHANGED <<otherVars, RUNNING, SHUTDOWN, watchers>>

(* mgr.start(), with any of the modules failing to initialise *)
CallStart ==
    /\ Len(GLOBAL_ANY[1].guards) + Len(GLOBAL_ANY[1].modules) <= MaxGuards
    /\ \E failing \in SUBSET (1..Len(GLOBAL_ANY[1].modules)) :
         LET outcome == start(GLOBAL_ANY[1], failing)
         IN  /\ GLOBAL_ANY' = Some(outcome.mgr)
             /\ caller' = [pc |-> "idle", op |-> "start", returned |-> outcome.result]
    /\ UNCHANGED <<otherVars, RUNNING, SHUTDOWN, watchers>>

(* mgr.stop() *)
CallStop ==
    /\ GLOBAL_ANY' = Some(stop(GLOBAL_ANY[1]))
    /\ caller' = [pc |-> "idle", op |-> "stop", returned |-> <<>>]
    /\ UNCHANGED <<otherVars, RUNNING, SHUTDOWN, watchers>>

NextHookManager == CallRegister \/ CallStart \/ CallStop

SpecHookManager == InitHookManager /\ [][NextHookManager]_vars

(* the guards a manager holds for the hooks of its k-th module *)
GuardsOf(mgr, k) == {g \in 1..Len(mgr.guards) : mgr.guards[g].module = k}

(* C29: HookManager::start is all-or-nothing: when it returns the error    *)
(* of a failed init the manager holds no guards and is not started, and    *)
(* over any sequence of start and stop calls every module has at most one  *)
(* live set of hooks (one guard, as each init installs one hook).          *)
C29_StartIsAllOrNothing ==
    /\ (caller.op = "start" /\ ~caller.returned.ok) =>
           /\ GLOBAL_ANY[1].guards = <<>>
           /\ ~GLOBAL_ANY[1].started
    /\ \A k \in 1..Len(GLOBAL_ANY[1].modules) :
           Cardinality(GuardsOf(GLOBAL_ANY[1], k)) <= 1

----------------------------------------------------------------------------
(* lib.rs: try_start_system and stop_system on the loading thread, and the *)
(* runtime watcher threads that start_runtime spawns. A step is one access *)
(* to RUNNING, SHUTDOWN or the manager behind its mutex. A watcher is its  *)
(* position in the loop and whether a stop_runtime has stored the shutdown *)
(* flag while it was alive. The overlay thread only reads SHUTDOWN and is  *)
(* left out.                                                               *)

MaxStarts == 2   \* most calls of try_start_system that find RUNNING false

(* with_manager(f) on the global manager: nothing happens when it is unset *)
with_manager(global, f(_)) ==
    IF global = None THEN global ELSE Some(f(global[1]))

(* the thread 0 is the loading thread, the thread w >= 1 the w-th watcher *)
PcOf(t) == IF t = 0 THEN caller.pc ELSE watchers[t].pc

InitSystem ==
    /\ PatternIdle /\ CtorIdle /\ VTableIdle /\ MemoryIdle /\ EngineIdle
    /\ HooksIdle

(* try_start_system: RUNNING.compare_exchange(false, true) *)
CallTryStartSystem ==
    /\ caller.pc = "idle"
    /\ Len(watchers) < MaxStarts
    /\ IF RUNNING = FALSE
       THEN /\ RUNNING' = TRUE
            /\ caller' = [pc |-> "init_global_manager", op |-> "try_start_system",
                          returned |-> None]
       ELSE /\ RUNNING' = RUNNING
            /\ caller' = [pc |-> "idle", op |-> "try_start_system",
                          returned |-> Some(FALSE)]
    /\ UNCHANGED <<otherVars, GLOBAL_ANY, SHUTDOWN, watchers>>

(* start_hooks: hooks::init_global_manager(Config::default()) *)
StartHooksInit ==
    /\ caller.pc = "init_global_manager"
    /\ GLOBAL_ANY' = init_global_manager(GLOBAL_ANY)
    /\ caller' = [caller EXCEPT !.pc = "hooks_start"]
    /\ UNCHANGED <<otherVars, RUNNING, SHUTDOWN, watchers>>

(* start_hooks: hooks::start(), whose error is logged and dropped *)
StartHooksStart ==
    /\ caller.pc = "hooks_start"
    /\ \E failing \in SUBSET (1..Len(GLOBAL_ANY[1].modules)) :
         LET started_with(mgr) == start(mgr, failing).mgr
         IN  GLOBAL_ANY' = with_manager(GLOBAL_ANY, started_with)
    /\ caller' = [caller EXCEPT !.pc = "start_runtime"]
    /\ UNCHANGED <<otherVars, RUNNING, SHUTDOWN, watchers>>

(* start_runtime: if SHUTDOWN.load() { SHUTDOWN.store(false) }; the only   *)
(* other writes to SHUTDOWN store true, so the load and the store leave    *)
(* what one store of false leaves.                                         *)
StartRuntimeReset ==
    /\ caller.pc = "start_runtime"
    /\ SHUTDOWN' = FALSE
    /\ caller' = [caller EXCEPT !.pc = "spawn"]
    /\ UNCHANGED <<otherVars, GLOBAL_ANY, RUNNING, watchers>>

(* start_runtime: thread::spawn of the watcher *)
SpawnWatcher ==
    /\ caller.pc = "spawn"
    /\ watchers' = Append(watchers, [pc |-> "check", stop_requested |-> FALSE])
    /\ caller' = [caller EXCEPT !.pc = "install_hooks"]
    /\ UNCHANGED <<otherVars, GLOBAL_ANY, RUNNING, SHUTDOWN>>

(* install_hooks: register(ExampleModule); try_start_system returns true *)
InstallHooks ==
    /\ caller.pc = "install_hooks"
    /\ LET registered(mgr) == register(mgr, ExampleModule)
       IN  GLOBAL_ANY' = with_manager(GLOBAL_ANY, registered)
    /\ caller' = [pc |-> "idle", op |-> "try_start_system", returned |-> Some(TRUE)]
    /\ UNCHANGED <<otherVars, RUNNING, SHUTDOWN, watchers>>

(* stop_system, called by thread t: RUNNING.swap(false) *)
StopSystemSwap(t) ==
    /\ t <= Len(watchers)
    /\ IF t = 0 THEN caller.pc = "idle" ELSE watchers[t].pc = "stop_system"
    /\ RUNNING' = FALSE
    /\ IF t = 0
       THEN /\ caller' = [pc |-> IF RUNNING THEN "stop_runtime" ELSE "idle",
                          op |-> "stop_system", returned |-> None]
            /\ UNCHANGED watchers
       ELSE /\ watchers' = [watchers EXCEPT ![t].pc =
                               IF RUNNING THEN "stop_runtime" ELSE "exited"]
            /\ UNCHANGED caller
    /\ UNCHANGED <<otherVars, GLOBAL_ANY, SHUTDOWN>>

(* stop_runtime, on thread t: SHUTDOWN.store(true) *)
StopRuntime(t) ==
    /\ t <= Len(watchers)
    /\ PcOf(t) = "stop_runtime"
    /\ SHUTDOWN' = TRUE
    /\ watchers' = [w \in 1..Len(watchers) |->
                      [pc |-> IF w = t THEN "stop_hooks" ELSE watchers[w].pc,
                       stop_requested |-> \/ watchers[w].stop_requested
                                          \/ watchers[w].pc # "exited"]]
    /\ caller' = IF t = 0 THEN [caller EXCEPT !.pc = "stop_hooks"] ELSE caller
    /\ UNCHANGED <<otherVars, GLOBAL_ANY, RUNNING>>

(* stop_hooks, on thread t: hooks::stop(); stop_system returns, and the    *)
(* watcher that called it breaks out of its loop.                          *)
StopHooks(t) ==
    /\ t <= Len(watchers)
    /\ PcOf(t) = "stop_hooks"
    /\ GLOBAL_ANY' = with_manager(GLOBAL_ANY, stop)
    /\ IF t = 0
       THEN /\ caller' = [caller EXCEPT !.pc = "idle"]
            /\ UNCHANGED watchers
       ELSE /\ watchers' = [watchers EXCEPT ![t].pc = "exited"]
            /\ UNCHANGED caller
    /\ UNCHANGED <<otherVars, RUNNING, SHUTDOWN>>

(* the watcher's loop: if SHUTDOWN.load() { break } *)
WatcherCheck(w) ==
    /\ w <= Len(watchers)
    /\ watchers[w].pc = "check"
    /\ watchers' = [watchers EXCEPT ![w].pc = IF SHUTDOWN THEN "exited" ELSE "key"]
    /\ UNCHANGED <<otherVars, GLOBAL_ANY, RUNNING, SHUTDOWN, caller>>

(* the watcher's loop: if is_vk_pressed(exit_vk) { stop_system(); break }  *)
(* and otherwise the sleep                                                 *)
WatcherKey(w) ==
    /\ w <= Len(watchers)
    /\ watchers[w].pc = "key"
    /\ \E pressed \in BOOLEAN :
         watchers' = [watchers EXCEPT ![w].pc =
                         IF pressed THEN "stop_system" ELSE "check"]
    /\ UNCHANGED <<otherVars, GLOBAL_ANY, RUNNING, SHUTDOWN, caller>>

(* what the loading thread does inside a call it has begun *)
CallerStep ==
    \/ StartHooksInit
    \/ StartHooksStart
    \/ StartRuntimeReset
    \/ SpawnWatcher
    \/ InstallHooks
    \/ StopRuntime(0)
    \/ StopHooks(0)

(* what the w-th watcher thread does *)
WatcherStep(w) ==
    \/ WatcherCheck(w)
    \/ WatcherKey(w)
    \/ StopSystemSwap(w)
    \/ StopRuntime(w)
    \/ StopHooks(w)

NextSystem ==
    \/ CallTryStartSystem
    \/ StartHooksInit
    \/ StartHooksStart
    \/ StartRuntimeReset
    \/ SpawnWatcher
    \/ InstallHooks
    \/ \E t \in 0..MaxStarts : StopSystemSwap(t)
    \/ \E t \in 0..MaxStarts : StopRuntime(t)
    \/ \E t \in 0..MaxStarts : StopHooks(t)
    \/ \E w \in 1..MaxStarts : WatcherCheck(w)
    \/ \E w \in 1..MaxStarts : WatcherKey(w)

(* Every thread is scheduled again and again; when the library is loaded   *)
(* or unloaded is up to the process.                                       *)
SpecSystem ==
    /\ InitSystem
    /\ [][NextSystem]_vars
    /\ WF_vars(CallerStep)
    /\ \A w \in 1..MaxStarts : WF_vars(WatcherStep(w))

(* C28: whenever the manager is started, init has been called since the    *)
(* last stop on every module of its registry; and once try_start_system    *)
(* has returned true (and nobody has stopped the system since), the module *)
(* that install_hooks registered is initialised and its hook is installed. *)
C28_StartedManagerHasInitialisedModules ==
    GLOBAL_ANY # None =>
        LET mgr == GLOBAL_ANY[1]
        IN  /\ mgr.started =>
                  \A k \in 1..Len(mgr.modules) : mgr.modules[k].initialised
            /\ (/\ caller.op = "try_start_system"
                /\ caller.pc = "idle"
                /\ caller.returned = Some(TRUE)
                /\ RUNNING) =>
                  /\ mgr.modules # <<>>
                  /\ mgr.modules[Len(mgr.modules)].initialised
                  /\ GuardsOf(mgr, Len(mgr.modules)) # {}

AliveWatchers == {w \in 1..Len(watchers) : watchers[w].pc # "exited"}

(* C30: after stop_system every watcher spawned before it eventually       *)
(* observes the shutdown and exits, under every interleaving, also when a  *)
(* try_start_system follows the stop at once; and at most one watcher is   *)
(* alive at a time.                                                        *)
C30_WatchersExitAfterStop ==
    /\ [](Cardinality(AliveWatchers) <= 1)
    /\ \A w \in 1..MaxStarts :
           (w <= Len(watchers) /\ watchers[w].stop_requested) ~>
               (w <= Len(watchers) /\ watchers[w].pc = "exited")

====
